---------------------------- MODULE Spec2Model ----------------------------
(***************************************************************************)
(* Audio loss and distortion monitor.                                      *)
(*                                                                         *)
(* The module models                                                       *)
(*   - send_email of audio_utils.py (connectivity probe, failure flag,     *)
(*     recovery notice, retry loop),                                       *)
(*   - the main loop of the full monitor (testtest.py and                  *)
(*     Python/monitor_audio.py, whose loops are the same code): loss       *)
(*     track, distortion track, internet recovery check, health check,     *)
(*   - the main loop of the simple monitor (monitor_audio.py).             *)
(*                                                                         *)
(* Time is the value of time.time() in whole seconds.  Levels are dBFS     *)
(* values as returned by rms_to_dbfs.                                      *)
(***************************************************************************)
EXTENDS Integers, Sequences, FiniteSets, TLC

(***************************************************************************)
(* Configuration (config.py defaults).                                     *)
(***************************************************************************)
SILENCE_THRESHOLD_DB == -55

CLEAR_THRESHOLD_DB == -40

DISTORTION_THRESHOLD_DB == -2

SILENCE_LIMIT == 3

CLEAR_LIMIT == 2

REMINDER_INTERVAL == 300

\* the fixed count of the distortion track ("Distortion chunk n/3")
DISTORTION_LIMIT == 3

HEALTH_EMAIL_INTERVAL_HOURS == 3

\* range(3) of the retry loop of send_email
MAX_ATTEMPTS == 3

\* time.sleep(5 * (attempt + 1))
BACKOFF_SECONDS == 5

(***************************************************************************)
(* Bounds of the model.                                                    *)
(***************************************************************************)
\* value of time.time() when the loop starts
StartTime == 20000

\* the loops run while less than MaxElapsed seconds have passed
MaxElapsed == 900

\* send_email alone is called while less than MailMaxElapsed seconds have passed
MailMaxElapsed == 10

\* dBFS values a tick may measure: the floor, both sides of each threshold
Levels == {-80, -56, -55, -41, -40, -2, -1}

\* seconds from one capture to the next (chunk, processing, sleep)
TickSeconds == {150, 300}

\* str(e) of the exception raised by requests.get
ProbeErrors == {"ConnectionError", "Timeout"}

\* outcome of requests.get: an HTTP status or an exception
ProbeOutcomes == {"200", "503"} \cup ProbeErrors

\* what the outside world does to one send_email call:
\*   probe  - outcome of requests.get
\*   notice - whether the SMTP session of the recovery notice goes through
\*   smtp   - for each of the attempts, whether the SMTP session goes through
\*   (an attempt after the first one that goes through is never made, so the
\*   smtp patterns are: through at attempt n, or at none)
SmtpPatterns == {[k \in 1..MAX_ATTEMPTS |-> k >= n] : n \in 1..(MAX_ATTEMPTS + 1)}

AllWorlds == [probe : ProbeOutcomes, notice : BOOLEAN, smtp : SmtpPatterns]

WorldUp == [probe |-> "200", notice |-> TRUE, smtp |-> [k \in 1..MAX_ATTEMPTS |-> TRUE]]

WorldDown == [probe |-> "ConnectionError", notice |-> FALSE, smtp |-> [k \in 1..MAX_ATTEMPTS |-> FALSE]]

WorldSmtpDown == [probe |-> "200", notice |-> FALSE, smtp |-> [k \in 1..MAX_ATTEMPTS |-> FALSE]]

\* the worlds the monitor loops are run against
Worlds == {WorldUp, WorldDown, WorldSmtpDown}

RECOVERY_SUBJECT == "System Notice: Internet Connection Restored"

\* argparse defaults of the simple monitor (monitor_audio.py)
SIMPLE_SILENCE_THRESHOLD_DB == -36

SIMPLE_CLEAR_THRESHOLD_DB == -20

\* dBFS values a tick of the simple monitor may measure
SimpleLevels == {-80, -37, -36, -21, -20, -1}

\* parameters of send_email(subject, body, attachment=None, embed_graph=None, audio_clip=None)
SEND_EMAIL_PARAMS == {"subject", "body", "attachment", "embed_graph", "audio_clip"}

\* capacity of db_history / timestamp_history
MAX_HISTORY == 120

\* the history is followed over MaxCaptures captures
MaxCaptures == 123

\* the first MaxFreeSamples captures measure any level of HistoryLevels, the
\* later ones the floor
MaxFreeSamples == 3

HistoryLevels == {-80, -1}

\* seconds from one capture to the next while the history is followed
HistoryTickSeconds == {10}

\* alarm durations that are formatted: every duration up to MaxShortDuration
\* seconds, and durations around one hour, one day and several days
MaxShortDuration == 130

DurationInputs == (0..MaxShortDuration) \cup {3599, 3600, 3601, 3661, 7325, 86399, 86400, 86401, 90061, 172800, 266645}

\* the lines of a mail body, by what _format_line tells apart:
\*   blank  - empty after strip()
\*   plain  - text without ':'
\*   pair   - "key: value"
\*   url    - starts with "http" (and so contains ':')
\*   still  - starts with "Still silent" (and contains the ':' of a time)
LineKinds == {"blank", "plain", "pair", "url", "still"}

\* a body has at most MaxBodyLines lines
MaxBodyLines == 3

Bodies == UNION {[1..n -> LineKinds] : n \in 0..MaxBodyLines}

\* config.LOG_RETENTION_DAYS (src/Python/config.py)
LOG_RETENTION_DAYS == 7

\* the cleanup thread is followed over MaxDays wake-ups
MaxDays == 9

\* the log directory holds, at start, files of earlier runs named after days
\* up to MaxLogAge days back; a cleanup stamp of an earlier run is as old
MaxLogAge == 8

InitialLogDays == {0 - a : a \in 1..MaxLogAge}

\* the evidence pieces of an event, by the send_email parameter that carries them:
\* log excerpt, trend plot, audio clip
Pieces == {"attachment", "embed_graph", "audio_clip"}

\* what happens to the evidence of one event: the pieces whose builder fails
\* (extract_recent_logs, generate_trend_plot, record_audio_clip) and the pieces
\* whose attach block inside send_email raises
EvidenceCases == {c \in [failed : SUBSET Pieces, attach_failed : SUBSET Pieces] : c.failed \cap c.attach_failed = {}}

NoEvidenceFailure == [failed |-> {}, attach_failed |-> {}]

\* the evidence outcomes the monitor loops are run against
EvidenceRun == {NoEvidenceFailure, [failed |-> {"audio_clip"}, attach_failed |-> {"embed_graph"}]}

\* dBFS values of the runs that go through every evidence outcome:
\* silent, clear, clear and distorted
EvidenceLevels == {-80, -40, -1}

\* seconds from one capture to the next in those runs
EvidenceTickSeconds == {150}

\* rms is a float in the code; here it is held in whole units of 1/RMS_SCALE
RMS_SCALE == 1000000

\* rms values a capture may give: digital silence, then levels of -60, -40
\* and 0 dBFS
CapturedRms == {0, 1000, 10000, 1000000}

\* how sd.rec / sd.wait may end: with a recording, with PortAudioError, or
\* with any other exception
CaptureOutcomes ==
    {[kind |-> "rms", rms |-> r] : r \in CapturedRms}
        \cup {[kind |-> "PortAudioError", rms |-> 0], [kind |-> "Exception", rms |-> 0]}

\* rms_to_dbfs is tried on every rms from -MaxNegRms/RMS_SCALE up to 0
MaxNegRms == 60

\* largest exponent n of the positive inputs 10^n / RMS_SCALE
MaxRmsExponent == 6

\* inputs of rms_to_dbfs: negative values, zero, and positive powers of ten
RmsInputs ==
    ((0 - MaxNegRms)..0) \cup {10^n : n \in 0..MaxRmsExponent}

\* longest level history given to generate_trend_plot
MaxPlotHistory == 3

\* levels in those histories
PlotLevels == {-80, -40}

\* level histories given to generate_trend_plot, the empty one among them
PlotHistories ==
    UNION {[1..n -> PlotLevels] : n \in 0..MaxPlotHistory}

\* lines[-400:] of clean_logs
CLEAN_LOGS_KEEP == 400

\* default of the parameter lines of extract_recent_logs
DEFAULT_LINES == 400

\* longest log file found when the monitor starts
MaxLogLines == 3

\* a log line is its text and whether white space surrounds it; the text ""
\* makes a blank line
LineTexts == {"", "a", "b"}

LogLines ==
    [text : LineTexts, pad : BOOLEAN]

\* contents of LOG_FILE when the monitor starts
LogContents ==
    UNION {[1..n -> LogLines] : n \in 0..MaxLogLines}

\* values of the parameter lines
LinesArgs == (1..MaxLogLines) \cup {DEFAULT_LINES}

\* the line logger.info(f"Audio Level: {db:.1f} dBFS") writes
AudioLevelLine ==
    [text |-> "Audio Level", pad |-> FALSE]

\* the health-check runs go on while less than HealthMaxElapsed seconds have
\* passed: past the second health mail, which comes
\* HEALTH_EMAIL_INTERVAL_HOURS after the one of the first iteration
HealthMaxElapsed == 11100

\* dBFS values of the health-check runs: silent, and neither silent nor clear
HealthLevels == {-80, -50}

\* seconds from one capture to the next in those runs
HealthTickSeconds == {300}

\* the runs with an outage go on while less than OutageMaxElapsed seconds have
\* passed
OutageMaxElapsed == 900

\* dBFS values of the runs with an outage: silent, and neither silent nor clear
OutageLevels == {-80, -50}

\* seconds from one capture to the next in those runs
OutageTickSeconds == {300}

\* seconds from one capture to the next in the runs that follow the history
\* through failed captures
DeviceTickSeconds == {250}

\* None of alert_start_loss / alert_start_distortion
None == -1

VARIABLES
    program,            \* which main loop runs: "full", "simple", or "mail" (send_email alone)
    pc,                 \* position in the loop body
    clock,              \* time.time()
    EMAIL_TO,           \* config.EMAIL_TO
    state_file,         \* last_failed_email.json: {} when absent, else {its JSON object}
    silent_count,
    clear_count,
    distortion_count,
    alarm_active,
    distortion_active,
    last_alert_time_loss,
    last_alert_time_distortion,
    alert_start_loss,
    alert_start_distortion,
    last_health_email,
    db,                 \* level of the latest captured chunk
    events,             \* what the latest step emitted: calls of send_email, in order
    silent_run,         \* consecutive silent samples seen while no loss alarm was active
    clear_run,          \* consecutive clear samples seen while the loss alarm was active
    distorted_run,      \* consecutive distorted samples seen while no distortion alarm was active
    last_emit,          \* time of the latest ALERT/REMINDER call of the current loss alarm
    restored_notices,   \* 'Connection Restored' mails delivered for the latest outage
    db_history,         \* the levels kept for the trend plot, oldest first
    timestamp_history,  \* the capture time of each kept level
    captured,           \* every <<level, time>> captured so far, in arrival order
    duration,           \* seconds an alarm has been active when its CLEAR is composed
    duration_str,       \* the duration as the CLEAR mail prints it: a sequence of <<number, unit>>
    body,               \* the body given to send_email: a sequence of lines
    rows,               \* the rows of the HTML table built from the body
    today,              \* whole days since the monitor was started
    log_files,          \* the dated log files in logs/: the day each is named after
    last_cleanup,       \* last_log_cleanup.txt: {} when absent, else {the day written to it}
    swept,              \* whether the latest wake-up of the cleanup thread ran cleanup_old_logs
    rms,                \* what the latest safe_measure_rms call returned, in units of 1/RMS_SCALE
    capture,            \* how the latest safe_measure_rms call ended
    failed_run,         \* consecutive captures whose exception safe_measure_rms swallowed
    log_file,           \* the lines of LOG_FILE, oldest first
    today_log_file,     \* the lines of TODAY_LOG_FILE, oldest first
    handler_file,       \* the file the logger's file handler writes to
    lines_arg,          \* the argument lines of the latest extract_recent_logs call
    excerpt             \* what the latest extract_recent_logs call put in its buffer

vars == <<program, pc, clock, EMAIL_TO, state_file, silent_count, clear_count, distortion_count, alarm_active, distortion_active, last_alert_time_loss, last_alert_time_distortion, alert_start_loss, alert_start_distortion, last_health_email, db, events, silent_run, clear_run, distorted_run, last_emit, restored_notices, db_history, timestamp_history, captured, duration, duration_str, body, rows, today, log_files, last_cleanup, swept, rms, capture, failed_run, log_file, today_log_file, handler_file, lines_arg, excerpt>>

historyVars == <<db_history, timestamp_history, captured>>

formatVars == <<duration, duration_str, body, rows>>

cleanupVars == <<today, log_files, last_cleanup, swept>>

captureVars == <<rms, capture, failed_run>>

logVars == <<log_file, today_log_file, handler_file, lines_arg, excerpt>>

\* what the alert state machine and send_email neither read nor write
auxVars == <<historyVars, formatVars, cleanupVars, captureVars, logVars>>

trackVars == <<silent_count, clear_count, distortion_count, alarm_active, distortion_active, last_alert_time_loss, last_alert_time_distortion, alert_start_loss, alert_start_distortion, last_health_email, db, silent_run, clear_run, distorted_run, last_emit>>

(***************************************************************************)
(* send_email                                                              *)
(***************************************************************************)
\* (variant: the flag is not written)
FailedState_NotWritten(reason, now) ==
    {}

\* _set_failed_state: the JSON object written to STATE_FILE
FailedState(reason, now) ==
    {[failed |-> TRUE, reason |-> reason, timestamp |-> now]}

\* (variant: the flag is left in place)
ClearedState_Kept(sf) ==
    sf

\* _clear_failed_state: os.remove(STATE_FILE) when it exists
ClearedState(sf) ==
    {}

\* _was_failed_before: the stored object, or nothing
WasFailedBefore(sf) ==
    sf

\* number of the first attempt that goes through, MAX_ATTEMPTS + 1 when none does
FirstSuccess(smtp) ==
    IF \E k \in 1..MAX_ATTEMPTS : smtp[k]
    THEN CHOOSE k \in 1..MAX_ATTEMPTS : smtp[k] /\ \A j \in 1..(k - 1) : ~smtp[j]
    ELSE MAX_ATTEMPTS + 1

\* the attempts the retry loop makes: it stops at the first one that goes through
AttemptsMade(smtp) ==
    IF FirstSuccess(smtp) <= MAX_ATTEMPTS THEN FirstSuccess(smtp) ELSE MAX_ATTEMPTS

\* (variant: the same sleep after every failed attempt)
Backoff_Constant(k) ==
    BACKOFF_SECONDS

\* time.sleep after failed attempt k
Backoff(k) ==
    BACKOFF_SECONDS * k

\* the sleeps of the retry loop, in order: one after every failed attempt
RetrySleeps(smtp) ==
    [k \in 1..(FirstSuccess(smtp) - 1) |-> Backoff(k)]

RECURSIVE SumSeq(_)
SumSeq(s) ==
    IF s = <<>> THEN 0 ELSE Head(s) + SumSeq(Tail(s))

\* one SMTP session of the recovery notice; it is opened after _clear_failed_state
NoticeSubmission(previous, sfNow, to, w, now) ==
    [kind |-> "notice", subject |-> RECOVERY_SUBJECT, ok |-> (w.notice /\ to # <<>>), flag_present |-> (sfNow # {}), previous |-> previous, at |-> now]

\* SMTP session k of the retry loop
MessageSubmission(subject, sfNow, w, k, now) ==
    [kind |-> "message", subject |-> subject, ok |-> w.smtp[k], flag_present |-> (sfNow # {}), previous |-> {}, at |-> now + SumSeq(SubSeq(RetrySleeps(w.smtp), 1, k - 1))]

\* the recovery-notice block: clear the flag, then try to send the notice
RecoveryNotice(sf, to, w, now) ==
    LET previous == WasFailedBefore(sf)
    IN  IF w.probe = "200" /\ previous # {}
        THEN [state_file |-> ClearedState(sf), subs |-> <<NoticeSubmission(previous, ClearedState(sf), to, w, now)>>]
        ELSE [state_file |-> sf, subs |-> <<>>]

\* the retry loop
SendWithRetries(subject, sf, w, now) ==
    [subs |-> [k \in 1..AttemptsMade(w.smtp) |-> MessageSubmission(subject, sf, w, k, now)],
     sleeps |-> RetrySleeps(w.smtp),
     ret |-> (FirstSuccess(w.smtp) <= MAX_ATTEMPTS)]

\* send_email(subject, body, ...) called at time now with STATE_FILE = sf in world w.
\* Result: the call's return value, the new STATE_FILE, the time at return, the
\* SMTP sessions it opened and the sleeps it made, in order.
SendEmail(subject, sf, to, w, now) ==
    IF w.probe \in ProbeErrors
    THEN [subject |-> subject, probe |-> w.probe, entry_file |-> sf, called |-> now,
          ret |-> FALSE, state_file |-> FailedState(w.probe, now), now |-> now,
          subs |-> <<>>, sleeps |-> <<>>]
    ELSE LET rec == RecoveryNotice(sf, to, w, now)
             recipients == to
             loop == SendWithRetries(subject, rec.state_file, w, now)
         IN  IF recipients = <<>>
             THEN [subject |-> subject, probe |-> w.probe, entry_file |-> sf, called |-> now,
                   ret |-> FALSE, state_file |-> rec.state_file, now |-> now,
                   subs |-> rec.subs, sleeps |-> <<>>]
             ELSE [subject |-> subject, probe |-> w.probe, entry_file |-> sf, called |-> now,
                   ret |-> loop.ret, state_file |-> rec.state_file, now |-> now + SumSeq(loop.sleeps),
                   subs |-> rec.subs \o loop.subs, sleeps |-> loop.sleeps]

\* the builders catch every exception and return None: the pieces that reach
\* send_email as arguments are those whose builder did not fail
Gathered(failed) ==
    Pieces \ failed

\* (variant: the attach blocks have no try/except)
BuildMessage_Unguarded(passed, attach_failed) ==
    [attached |-> passed \ attach_failed, built |-> passed \cap attach_failed = {}]

\* the message is built from the pieces that are not None; each attach block
\* catches its own exception and logs a warning
BuildMessage(passed, attach_failed) ==
    [attached |-> passed \ attach_failed, built |-> TRUE]

\* send_email(subject, body, attachment=..., embed_graph=..., audio_clip=...):
\* the message is built after the probe and the recipient check, before the
\* retry loop; an exception while building would leave send_email there
SendEmailWith(subject, passed, attach_failed, sf, to, w, now) ==
    LET c == SendEmail(subject, sf, to, w, now)
        m == BuildMessage(passed, attach_failed)
    IN  IF w.probe \in ProbeErrors \/ to = <<>>
        THEN [passed |-> passed, attached |-> {}] @@ c
        ELSE IF m.built
             THEN [passed |-> passed, attached |-> m.attached] @@ c
             ELSE [passed |-> passed, attached |-> m.attached]
                  @@ [c EXCEPT !.ret = FALSE, !.now = now, !.sleeps = <<>>,
                               !.subs = RecoveryNotice(sf, to, w, now).subs]

(***************************************************************************)
(* Sample classification (main loop)                                       *)
(***************************************************************************)
IsSilent(d) ==
    d < SILENCE_THRESHOLD_DB

\* (variant: a sample at the threshold is not clear)
IsClear_Strict(d) ==
    d > CLEAR_THRESHOLD_DB

IsClear(d) ==
    d >= CLEAR_THRESHOLD_DB

IsDistorted(d) ==
    d > DISTORTION_THRESHOLD_DB

(***************************************************************************)
(* History of the sample stream and of the mails, kept beside the program  *)
(* state; the program never reads it.                                      *)
(***************************************************************************)
Calls(evs, subject) ==
    {i \in 1..Len(evs) : evs[i].subject = subject}

Fired(evs, subject) ==
    Calls(evs, subject) # {}

\* 'Connection Restored' mails that an SMTP session of call c delivered
Delivered(c) ==
    Cardinality({i \in 1..Len(c.subs) : c.subs[i].subject = RECOVERY_SUBJECT /\ c.subs[i].ok})

RECURSIVE CountRestored(_, _)
CountRestored(n, evs) ==
    IF evs = <<>> THEN n
    ELSE LET c == Head(evs)
             m == IF c.entry_file = {} /\ c.state_file # {} THEN 0 ELSE n + Delivered(c)
         IN  CountRestored(m, Tail(evs))

\* time of the latest ALERT/REMINDER call, None once the alarm is cleared
RECURSIVE LastEmit(_, _)
LastEmit(t, evs) ==
    IF evs = <<>> THEN t
    ELSE LET c == Head(evs)
             u == IF c.subject \in {"ALERT: Audio Loss", "REMINDER: Audio Still Lost"} THEN c.called
                  ELSE IF c.subject = "CLEAR: Audio Restored" THEN None
                  ELSE t
         IN  LastEmit(u, Tail(evs))


\* the programs that run the full monitor's loop: "full" is testtest.py,
\* "dated" is Python/monitor_audio.py, whose loop differs in the health block;
\* "outage" and "restored" are testtest.py while the network may be down and
\* after it has come back for good
FullPrograms ==
    {"full", "dated", "outage", "restored"}

\* the environments a run of the program is followed in: the long runs are
\* followed with the network up
RunWorlds(prog) ==
    IF prog \in {"dated", "restored"} THEN {WorldUp} ELSE Worlds

\* the outcomes of the loop's own requests.get in those environments
LoopProbes(prog) ==
    IF prog \in {"dated", "restored"} THEN {"200"} ELSE ProbeOutcomes

\* how long a run of the program is followed
Horizon(prog) ==
    IF prog = "dated" THEN HealthMaxElapsed
    ELSE IF prog \in {"outage", "restored"} THEN OutageMaxElapsed
    ELSE MaxElapsed

\* the last line of the health mail's body: fixed in testtest.py, chosen from
\* the latest level in Python/monitor_audio.py
HealthStatus(prog, d) ==
    IF prog = "dated"
    THEN IF d < SILENCE_THRESHOLD_DB THEN "Audio loss detected"
         ELSE IF d > DISTORTION_THRESHOLD_DB THEN "Distortion detected"
         ELSE "System operating normally"
    ELSE "System operating normally"

(***************************************************************************)
(* The full monitor's loop body works on its local variables; L is the     *)
(* record of them while one iteration runs (now = time.time(), events =    *)
(* the send_email calls made so far in this iteration).                    *)
(***************************************************************************)
Locals(now) ==
    [silent_count |-> silent_count, clear_count |-> clear_count, distortion_count |-> distortion_count,
     alarm_active |-> alarm_active, distortion_active |-> distortion_active,
     last_alert_time_loss |-> last_alert_time_loss, last_alert_time_distortion |-> last_alert_time_distortion,
     alert_start_loss |-> alert_start_loss, alert_start_distortion |-> alert_start_distortion,
     state_file |-> state_file, now |-> now, events |-> <<>>]

\* a call of send_email from the loop: the evidence is gathered, the mail is sent.
\* The call is recorded with the time of the ALERT/REMINDER call before it.
Emit(L, subject, w) ==
    LET c == SendEmail(subject, L.state_file, EMAIL_TO, w, L.now)
        e == [prev_emit |-> LastEmit(last_emit, L.events)] @@ c
    IN  [L EXCEPT !.state_file = c.state_file, !.now = c.now, !.events = Append(@, e)]

\* the locals an event may touch besides the reminder timer
Frame(L) ==
    [alarm_active |-> L.alarm_active, alert_start_loss |-> L.alert_start_loss,
     silent_count |-> L.silent_count, clear_count |-> L.clear_count,
     distortion_count |-> L.distortion_count, distortion_active |-> L.distortion_active,
     last_alert_time_distortion |-> L.last_alert_time_distortion,
     alert_start_distortion |-> L.alert_start_distortion]

\* the end of an event's branch: the locals as the branch leaves them are noted
\* beside the call it made
Done(S) ==
    [S EXCEPT !.events[Len(S.events)].after = Frame(S)]

\* a call of send_email from the full monitor: the three evidence pieces are
\* gathered, then send_email is called with them; w says what the builders,
\* the attach blocks and the network do
EmitWith(L, subject, w) ==
    LET c == SendEmailWith(subject, Gathered(w.failed), w.attach_failed, L.state_file, EMAIL_TO, w, L.now)
        e == [prev_emit |-> LastEmit(last_emit, L.events), failed |-> w.failed, attach_failed |-> w.attach_failed,
              before |-> Frame(L), after |-> Frame(L)] @@ c
    IN  [L EXCEPT !.state_file = c.state_file, !.now = c.now, !.events = Append(@, e)]

\* (variant: the elif that resets silent_count is missing)
AudioLossAlert_NoReset(L, d, w) ==
    IF ~L.alarm_active /\ IsSilent(d)
    THEN IF L.silent_count + 1 >= SILENCE_LIMIT
         THEN LET S == EmitWith([L EXCEPT !.silent_count = @ + 1], "ALERT: Audio Loss", w)
              IN  Done([S EXCEPT !.alarm_active = TRUE, !.alert_start_loss = S.now,
                            !.silent_count = 0, !.last_alert_time_loss = S.now])
         ELSE [L EXCEPT !.silent_count = @ + 1]
    ELSE L

\* (variant: the ALERT block does not look at alarm_active)
AudioLossAlert_Rearmed(L, d, w) ==
    IF IsSilent(d)
    THEN IF L.silent_count + 1 >= SILENCE_LIMIT
         THEN LET S == EmitWith([L EXCEPT !.silent_count = @ + 1], "ALERT: Audio Loss", w)
              IN  Done([S EXCEPT !.alarm_active = TRUE, !.alert_start_loss = S.now,
                            !.silent_count = 0, !.last_alert_time_loss = S.now])
         ELSE [L EXCEPT !.silent_count = @ + 1]
    ELSE [L EXCEPT !.silent_count = 0]

\* (variant: the ALERT branch does not start the reminder timer)
AudioLossAlert_TimerNotStarted(L, d, w) ==
    IF ~L.alarm_active /\ IsSilent(d)
    THEN IF L.silent_count + 1 >= SILENCE_LIMIT
         THEN LET S == EmitWith([L EXCEPT !.silent_count = @ + 1], "ALERT: Audio Loss", w)
              IN  Done([S EXCEPT !.alarm_active = TRUE, !.alert_start_loss = S.now,
                            !.silent_count = 0])
         ELSE [L EXCEPT !.silent_count = @ + 1]
    ELSE IF ~IsSilent(d)
         THEN [L EXCEPT !.silent_count = 0]
         ELSE L

\* (variant: the alarm is entered only when send_email returned True)
AudioLossAlert_OnlyIfDelivered(L, d, w) ==
    IF ~L.alarm_active /\ IsSilent(d)
    THEN IF L.silent_count + 1 >= SILENCE_LIMIT
         THEN LET S == EmitWith([L EXCEPT !.silent_count = @ + 1], "ALERT: Audio Loss", w)
              IN  IF S.events[Len(S.events)].ret
                  THEN Done([S EXCEPT !.alarm_active = TRUE, !.alert_start_loss = S.now,
                                !.silent_count = 0, !.last_alert_time_loss = S.now])
                  ELSE Done([S EXCEPT !.silent_count = 0])
         ELSE [L EXCEPT !.silent_count = @ + 1]
    ELSE IF ~IsSilent(d)
         THEN [L EXCEPT !.silent_count = 0]
         ELSE L

\* "AUDIO LOSS ALERT" block
AudioLossAlert(L, d, w) ==
    IF ~L.alarm_active /\ IsSilent(d)
    THEN IF L.silent_count + 1 >= SILENCE_LIMIT
         THEN LET S == EmitWith([L EXCEPT !.silent_count = @ + 1], "ALERT: Audio Loss", w)
              IN  Done([S EXCEPT !.alarm_active = TRUE, !.alert_start_loss = S.now,
                            !.silent_count = 0, !.last_alert_time_loss = S.now])
         ELSE [L EXCEPT !.silent_count = @ + 1]
    ELSE IF ~IsSilent(d)
         THEN [L EXCEPT !.silent_count = 0]
         ELSE L

\* (variant: the reminder compares with the start of the alarm, not with the
\* latest alert or reminder)
AudioRestored_SinceStart(L, d, w) ==
    IF L.alarm_active /\ IsClear(d)
    THEN IF L.clear_count + 1 >= CLEAR_LIMIT
         THEN LET S == EmitWith([L EXCEPT !.clear_count = @ + 1], "CLEAR: Audio Restored", w)
              IN  Done([S EXCEPT !.alarm_active = FALSE, !.silent_count = 0, !.clear_count = 0,
                            !.last_alert_time_loss = 0, !.alert_start_loss = None])
         ELSE [L EXCEPT !.clear_count = @ + 1]
    ELSE IF L.alarm_active /\ L.now - L.alert_start_loss >= REMINDER_INTERVAL
         THEN LET S == EmitWith(L, "REMINDER: Audio Still Lost", w)
              IN  Done([S EXCEPT !.last_alert_time_loss = S.now])
         ELSE L

\* (variant: the reminder branch also clears clear_count, as the else branch
\* of the simple monitor does)
AudioRestored_ReminderResets(L, d, w) ==
    IF L.alarm_active /\ IsClear(d)
    THEN IF L.clear_count + 1 >= CLEAR_LIMIT
         THEN LET S == EmitWith([L EXCEPT !.clear_count = @ + 1], "CLEAR: Audio Restored", w)
              IN  Done([S EXCEPT !.alarm_active = FALSE, !.silent_count = 0, !.clear_count = 0,
                            !.last_alert_time_loss = 0, !.alert_start_loss = None])
         ELSE [L EXCEPT !.clear_count = @ + 1]
    ELSE IF L.alarm_active /\ L.now - L.last_alert_time_loss >= REMINDER_INTERVAL
         THEN LET S == EmitWith(L, "REMINDER: Audio Still Lost", w)
              IN  Done([S EXCEPT !.last_alert_time_loss = S.now, !.clear_count = 0])
         ELSE L

\* (variant: the CLEAR branch leaves clear_count as it is)
AudioRestored_KeepsCount(L, d, w) ==
    IF L.alarm_active /\ IsClear(d)
    THEN IF L.clear_count + 1 >= CLEAR_LIMIT
         THEN LET S == EmitWith([L EXCEPT !.clear_count = @ + 1], "CLEAR: Audio Restored", w)
              IN  Done([S EXCEPT !.alarm_active = FALSE, !.silent_count = 0,
                            !.last_alert_time_loss = 0, !.alert_start_loss = None])
         ELSE [L EXCEPT !.clear_count = @ + 1]
    ELSE IF L.alarm_active /\ L.now - L.last_alert_time_loss >= REMINDER_INTERVAL
         THEN LET S == EmitWith(L, "REMINDER: Audio Still Lost", w)
              IN  Done([S EXCEPT !.last_alert_time_loss = S.now])
         ELSE L

\* "AUDIO RESTORED" block with its elif "AUDIO LOSS REMINDER"
AudioRestored(L, d, w) ==
    IF L.alarm_active /\ IsClear(d)
    THEN IF L.clear_count + 1 >= CLEAR_LIMIT
         THEN LET S == EmitWith([L EXCEPT !.clear_count = @ + 1], "CLEAR: Audio Restored", w)
              IN  Done([S EXCEPT !.alarm_active = FALSE, !.silent_count = 0, !.clear_count = 0,
                            !.last_alert_time_loss = 0, !.alert_start_loss = None])
         ELSE [L EXCEPT !.clear_count = @ + 1]
    ELSE IF L.alarm_active /\ L.now - L.last_alert_time_loss >= REMINDER_INTERVAL
         THEN LET S == EmitWith(L, "REMINDER: Audio Still Lost", w)
              IN  Done([S EXCEPT !.last_alert_time_loss = S.now])
         ELSE L

\* (variant: the elif that clears the distortion alarm is missing)
Distortion_NoClear(L, d, w) ==
    IF ~L.distortion_active /\ IsDistorted(d)
    THEN IF L.distortion_count + 1 >= DISTORTION_LIMIT
         THEN LET S == EmitWith([L EXCEPT !.distortion_count = @ + 1], "ALERT: Audio Distortion", w)
              IN  Done([S EXCEPT !.distortion_active = TRUE, !.alert_start_distortion = S.now,
                            !.last_alert_time_distortion = S.now, !.distortion_count = 0])
         ELSE [L EXCEPT !.distortion_count = @ + 1]
    ELSE L

\* (variant: the distortion block is skipped on a tick whose loss track sent
\* a mail)
Distortion_UnlessLossEvent(L, d, w) ==
    IF L.events # <<>>
    THEN L
    ELSE IF ~L.distortion_active /\ IsDistorted(d)
         THEN IF L.distortion_count + 1 >= DISTORTION_LIMIT
              THEN LET S == EmitWith([L EXCEPT !.distortion_count = @ + 1], "ALERT: Audio Distortion", w)
                   IN  Done([S EXCEPT !.distortion_active = TRUE, !.alert_start_distortion = S.now,
                                 !.last_alert_time_distortion = S.now, !.distortion_count = 0])
              ELSE [L EXCEPT !.distortion_count = @ + 1]
         ELSE IF ~IsDistorted(d) /\ L.distortion_active
              THEN [L EXCEPT !.distortion_count = 0, !.distortion_active = FALSE]
              ELSE L

\* "DISTORTION ALERT" block with its elif
Distortion(L, d, w) ==
    IF ~L.distortion_active /\ IsDistorted(d)
    THEN IF L.distortion_count + 1 >= DISTORTION_LIMIT
         THEN LET S == EmitWith([L EXCEPT !.distortion_count = @ + 1], "ALERT: Audio Distortion", w)
              IN  Done([S EXCEPT !.distortion_active = TRUE, !.alert_start_distortion = S.now,
                            !.last_alert_time_distortion = S.now, !.distortion_count = 0])
         ELSE [L EXCEPT !.distortion_count = @ + 1]
    ELSE IF ~IsDistorted(d) /\ L.distortion_active
         THEN [L EXCEPT !.distortion_count = 0, !.distortion_active = FALSE]
         ELSE L

\* whether a block of the iteration is about to call send_email
AlertDue(L, d) ==
    ~L.alarm_active /\ IsSilent(d) /\ L.silent_count + 1 >= SILENCE_LIMIT

RestoredDue(L, d) ==
    L.alarm_active /\ IsClear(d) /\ L.clear_count + 1 >= CLEAR_LIMIT

ReminderDue(L, d) ==
    L.alarm_active /\ ~IsClear(d) /\ L.now - L.last_alert_time_loss >= REMINDER_INTERVAL

DistortionDue(L, d) ==
    ~L.distortion_active /\ IsDistorted(d) /\ L.distortion_count + 1 >= DISTORTION_LIMIT

\* the world and the evidence are asked only when a call is made
WorldsIf(called, E) ==
    IF called THEN {e @@ w : e \in E, w \in RunWorlds(program)} ELSE {NoEvidenceFailure @@ WorldUp}

(***************************************************************************)
(* Initial states                                                          *)
(***************************************************************************)
\* the locals of main() before the loop, and the history
InitLocals ==
    /\ pc = "sample"
    /\ clock = StartTime
    /\ silent_count = 0
    /\ clear_count = 0
    /\ distortion_count = 0
    /\ alarm_active = FALSE
    /\ distortion_active = FALSE
    /\ last_alert_time_loss = 0
    /\ last_alert_time_distortion = 0
    /\ alert_start_loss = None
    /\ alert_start_distortion = None
    /\ last_health_email = 0
    /\ db = 0
    /\ events = <<>>
    /\ silent_run = 0
    /\ clear_run = 0
    /\ distorted_run = 0
    /\ last_emit = None
    /\ restored_notices = 0

\* the sample history before the first capture
IdleHistory ==
    /\ db_history = <<>>
    /\ timestamp_history = <<>>
    /\ captured = <<>>

\* nothing is being formatted
IdleFormat ==
    /\ duration = 0
    /\ duration_str = <<>>
    /\ body = <<>>
    /\ rows = <<>>

\* no log housekeeping is modelled
IdleCleanup ==
    /\ today = 0
    /\ log_files = {}
    /\ last_cleanup = {}
    /\ swept = FALSE

\* the capture itself is not followed: only the level it gives
IdleCapture ==
    /\ rms = 0
    /\ capture = "none"
    /\ failed_run = 0

\* the log files are not followed
IdleLog ==
    /\ log_file = <<>>
    /\ today_log_file = <<>>
    /\ handler_file = "LOG_FILE"
    /\ lines_arg = 0
    /\ excerpt = <<>>

\* a monitor is started with recipients configured and no failure flag
Init ==
    /\ program \in {"full", "simple"}
    /\ EMAIL_TO = <<"engineer">>
    /\ state_file = {}
    /\ InitLocals
    /\ IdleHistory
    /\ IdleFormat
    /\ IdleCleanup
    /\ IdleCapture
    /\ IdleLog

(***************************************************************************)
(* Full monitor: one loop iteration is Sample, RecoveryCheck, HealthCheck  *)
(***************************************************************************)
\* capture, classification, loss track, distortion track.
\* d is the measured level, dt the seconds since the previous capture, E the
\* outcomes the evidence of an event may have.
SampleBody(d, dt, E) ==
    /\ program \in FullPrograms
    /\ pc = "sample"
    /\ clock - StartTime < Horizon(program)
    /\ LET L0 == Locals(clock + dt)
       IN  \E w1 \in WorldsIf(AlertDue(L0, d), E) :
             LET L1 == AudioLossAlert(L0, d, w1)
             IN  \E w2 \in WorldsIf(RestoredDue(L1, d) \/ ReminderDue(L1, d), E) :
                   LET L2 == AudioRestored(L1, d, w2)
                   IN  \E w3 \in WorldsIf(DistortionDue(L2, d), E) :
                         \E L3 \in {Distortion(L2, d, w3)} :
                             /\ silent_count' = L3.silent_count
                             /\ clear_count' = L3.clear_count
                             /\ distortion_count' = L3.distortion_count
                             /\ alarm_active' = L3.alarm_active
                             /\ distortion_active' = L3.distortion_active
                             /\ last_alert_time_loss' = L3.last_alert_time_loss
                             /\ last_alert_time_distortion' = L3.last_alert_time_distortion
                             /\ alert_start_loss' = L3.alert_start_loss
                             /\ alert_start_distortion' = L3.alert_start_distortion
                             /\ state_file' = L3.state_file
                             /\ clock' = L3.now
                             /\ events' = L3.events
                             /\ restored_notices' = CountRestored(restored_notices, L3.events)
                             /\ last_emit' = LastEmit(last_emit, L3.events)
    /\ db' = d
    /\ silent_run' = IF ~alarm_active /\ IsSilent(d) THEN silent_run + 1 ELSE 0
    /\ clear_run' = IF alarm_active /\ IsClear(d) THEN clear_run + 1 ELSE 0
    /\ distorted_run' = IF ~distortion_active /\ IsDistorted(d) THEN distorted_run + 1 ELSE 0
    /\ pc' = "recovery"
    /\ UNCHANGED <<program, EMAIL_TO, last_health_email>>

\* one pass of the try block for a level d
Sample(d, dt, E) ==
    /\ SampleBody(d, dt, E)
    /\ UNCHANGED auxVars

\* (variant: the handler of PortAudioError starts the consecutive counts afresh)
DeviceErrorBody_ResetsCounts(dt) ==
    /\ program \in FullPrograms
    /\ pc = "sample"
    /\ clock - StartTime < Horizon(program)
    /\ clock' = clock + dt
    /\ events' = <<>>
    /\ silent_count' = 0
    /\ clear_count' = 0
    /\ distortion_count' = 0
    /\ UNCHANGED <<program, pc, EMAIL_TO, state_file, restored_notices>>
    /\ UNCHANGED <<alarm_active, distortion_active, last_alert_time_loss, last_alert_time_distortion, alert_start_loss, alert_start_distortion, last_health_email, db, silent_run, clear_run, distorted_run, last_emit>>

\* safe_measure_rms raises PortAudioError: sleep, select_input_device, continue
DeviceErrorBody(dt) ==
    /\ program \in FullPrograms
    /\ pc = "sample"
    /\ clock - StartTime < Horizon(program)
    /\ clock' = clock + dt
    /\ events' = <<>>
    /\ UNCHANGED <<program, pc, EMAIL_TO, state_file, restored_notices>>
    /\ UNCHANGED trackVars

DeviceError(dt) ==
    /\ DeviceErrorBody(dt)
    /\ UNCHANGED auxVars

\* (variant: the loop has no recovery check)
RecoveryCheck_Absent(p, w) ==
    /\ program \in FullPrograms
    /\ pc = "recovery"
    /\ events' = <<>>
    /\ pc' = "health"
    /\ UNCHANGED <<program, EMAIL_TO, state_file, clock, restored_notices>>
    /\ UNCHANGED trackVars
    /\ UNCHANGED auxVars

\* "Internet recovery check" block of the loop.
\* p is the outcome of the block's own requests.get, w the world of its send_email call.
RecoveryCheck(p, w) ==
    /\ program \in FullPrograms
    /\ pc = "recovery"
    /\ IF state_file # {} /\ p = "200"
       THEN LET c == SendEmail(RECOVERY_SUBJECT, state_file, EMAIL_TO, w, clock)
            IN  /\ state_file' = {}
                /\ clock' = c.now
                /\ events' = <<c>>
                /\ restored_notices' = CountRestored(restored_notices, <<c>>)
       ELSE /\ events' = <<>>
            /\ UNCHANGED <<state_file, clock, restored_notices>>
    /\ pc' = "health"
    /\ UNCHANGED <<program, EMAIL_TO>>
    /\ UNCHANGED trackVars
    /\ UNCHANGED auxVars

\* "Periodic Audio Health Check" block of the loop, then the sleep
HealthCheck(w) ==
    /\ program \in FullPrograms
    /\ pc = "health"
    /\ IF clock - last_health_email >= HEALTH_EMAIL_INTERVAL_HOURS * 3600
       THEN LET c == SendEmail("Audio Health Check", state_file, EMAIL_TO, w, clock)
            IN  /\ state_file' = c.state_file
                /\ clock' = c.now
                /\ events' = <<[status |-> HealthStatus(program, db)] @@ c>>
                /\ restored_notices' = CountRestored(restored_notices, <<c>>)
                /\ last_health_email' = clock
       ELSE /\ events' = <<>>
            /\ UNCHANGED <<state_file, clock, restored_notices, last_health_email>>
    /\ pc' = "sample"
    /\ UNCHANGED <<program, EMAIL_TO, silent_count, clear_count, distortion_count, alarm_active, distortion_active, last_alert_time_loss, last_alert_time_distortion, alert_start_loss, alert_start_distortion, db, silent_run, clear_run, distorted_run, last_emit>>
    /\ UNCHANGED auxVars


(***************************************************************************)
(* Simple monitor (monitor_audio.py): one action per loop iteration.       *)
(* Its locals are silent_count, clear_count, alarm_active and              *)
(* last_alert_time, held here in last_alert_time_loss.                     *)
(***************************************************************************)
\* a call send_email(**kwargs) binds its arguments or raises TypeError
CallAccepted(kwargs) ==
    kwargs \subseteq SEND_EMAIL_PARAMS

\* send_email called with the given keywords; TypeError leaves the iteration
\* through "except Exception", before any statement of send_email has run
SimpleEmit(L, subject, kwargs, w) ==
    IF CallAccepted(kwargs)
    THEN [Emit(L, subject, w) EXCEPT !.raised = FALSE]
    ELSE [L EXCEPT !.raised = TRUE]

\* the try block of the loop body
SimpleBody(L, d, w) ==
    IF ~L.alarm_active
    THEN IF d < SIMPLE_SILENCE_THRESHOLD_DB
         THEN IF L.silent_count + 1 >= SILENCE_LIMIT
              THEN LET S == SimpleEmit([L EXCEPT !.silent_count = @ + 1], "ALERT: Audio Loss",
                                       {"subject", "body", "attachment", "attachment_name"}, w)
                   IN  IF S.raised THEN S
                       ELSE [S EXCEPT !.alarm_active = TRUE, !.clear_count = 0, !.last_alert_time_loss = S.now]
              ELSE [L EXCEPT !.silent_count = @ + 1]
         ELSE [L EXCEPT !.silent_count = 0]
    ELSE IF d >= SIMPLE_CLEAR_THRESHOLD_DB
         THEN IF L.clear_count + 1 >= CLEAR_LIMIT
              THEN LET S == SimpleEmit([L EXCEPT !.clear_count = @ + 1], "CLEAR: Audio Restored",
                                       {"subject", "body"}, w)
                   IN  IF S.raised THEN S
                       ELSE [S EXCEPT !.alarm_active = FALSE, !.silent_count = 0, !.clear_count = 0]
              ELSE [L EXCEPT !.clear_count = @ + 1]
         ELSE IF L.now - L.last_alert_time_loss >= REMINDER_INTERVAL
              THEN LET S == SimpleEmit([L EXCEPT !.clear_count = 0], "REMINDER: Audio Still Lost",
                                       {"subject", "body", "attachment", "attachment_name"}, w)
                   IN  IF S.raised THEN S
                       ELSE [S EXCEPT !.last_alert_time_loss = S.now]
              ELSE [L EXCEPT !.clear_count = 0]

SimpleTick(d, dt, w) ==
    /\ program = "simple"
    /\ pc = "sample"
    /\ clock - StartTime < MaxElapsed
    /\ LET L1 == SimpleBody([raised |-> FALSE] @@ Locals(clock + dt), d, w)
       IN  /\ silent_count' = L1.silent_count
           /\ clear_count' = L1.clear_count
           /\ alarm_active' = L1.alarm_active
           /\ last_alert_time_loss' = L1.last_alert_time_loss
           /\ state_file' = L1.state_file
           /\ clock' = L1.now
           /\ events' = L1.events
           /\ restored_notices' = CountRestored(restored_notices, L1.events)
           /\ last_emit' = LastEmit(last_emit, L1.events)
    /\ db' = d
    /\ silent_run' = IF ~alarm_active /\ d < SIMPLE_SILENCE_THRESHOLD_DB THEN silent_run + 1 ELSE 0
    /\ clear_run' = IF alarm_active /\ d >= SIMPLE_CLEAR_THRESHOLD_DB THEN clear_run + 1 ELSE 0
    /\ UNCHANGED <<program, pc, EMAIL_TO, distortion_count, distortion_active, last_alert_time_distortion, alert_start_loss, alert_start_distortion, last_health_email, distorted_run>>
    /\ UNCHANGED auxVars

(***************************************************************************)
(* send_email alone: any caller, any world                                 *)
(***************************************************************************)
InitMail ==
    /\ program = "mail"
    /\ EMAIL_TO \in {<<>>, <<"engineer">>}
    /\ state_file \in {{}} \cup {FailedState(e, StartTime - 60) : e \in ProbeErrors}
    /\ InitLocals
    /\ IdleHistory
    /\ IdleFormat
    /\ IdleCleanup
    /\ IdleCapture
    /\ IdleLog

MailCall(subject, w) ==
    /\ program = "mail"
    /\ clock - StartTime < MailMaxElapsed
    /\ LET c == SendEmail(subject, state_file, EMAIL_TO, w, clock)
       IN  /\ state_file' = c.state_file
           /\ clock' = c.now
           /\ events' = <<c>>
           /\ restored_notices' = CountRestored(restored_notices, <<c>>)
    /\ UNCHANGED <<program, pc, EMAIL_TO>>
    /\ UNCHANGED trackVars
    /\ UNCHANGED auxVars

(***************************************************************************)
(* The sample history of the full monitor. db_history and timestamp_history *)
(* are written at the top of the loop body only and read by                *)
(* generate_trend_plot only, whose outcome the alert state machine takes   *)
(* as given; the history is followed on its own, over enough captures to   *)
(* fill it.                                                                *)
(***************************************************************************)
\* (variant: the newest entry is dropped when the list is over capacity)
Remember_DropNewest(history, x) ==
    LET appended == Append(history, x)
    IN  IF Len(appended) > MAX_HISTORY THEN SubSeq(appended, 1, Len(appended) - 1) ELSE appended

\* list.append(x), then list.pop(0) when the list is longer than MAX_HISTORY
Remember(history, x) ==
    LET appended == Append(history, x)
    IN  IF Len(appended) > MAX_HISTORY THEN Tail(appended) ELSE appended

InitHistory ==
    /\ program = "history"
    /\ EMAIL_TO = <<"engineer">>
    /\ state_file = {}
    /\ InitLocals
    /\ IdleHistory
    /\ IdleFormat
    /\ IdleCleanup
    /\ IdleCapture
    /\ IdleLog

\* top of the loop body: capture, append to both lists, evict
Capture(d, dt) ==
    /\ program = "history"
    /\ Len(captured) < MaxCaptures
    /\ Len(captured) >= MaxFreeSamples => d = -80
    /\ clock' = clock + dt
    /\ db' = d
    /\ db_history' = Remember(db_history, d)
    /\ timestamp_history' = Remember(timestamp_history, clock + dt)
    /\ captured' = Append(captured, <<d, clock + dt>>)
    /\ UNCHANGED <<program, pc, EMAIL_TO, state_file, events, restored_notices>>
    /\ UNCHANGED <<silent_count, clear_count, distortion_count, alarm_active, distortion_active, last_alert_time_loss, last_alert_time_distortion, alert_start_loss, alert_start_distortion, last_health_email, silent_run, clear_run, distorted_run, last_emit>>
    /\ UNCHANGED <<formatVars, cleanupVars, captureVars, logVars>>

(***************************************************************************)
(* The duration string of the CLEAR mail, as a function of the seconds the *)
(* alarm was active: int(time.time() - alert_start_loss).                  *)
(***************************************************************************)
\* (variant: minutes and seconds only, as the REMINDER mail prints its duration)
DurationStr_MinutesOnly(seconds_active) ==
    <<<<seconds_active \div 60, "m">>, <<seconds_active % 60, "s">>>>

\* divmod chain and the three f-strings: "{days}d {hours}h {minutes}m {seconds}s",
\* "{hours}h {minutes}m {seconds}s", "{minutes}m {seconds}s"
DurationStr(seconds_active) ==
    LET days == seconds_active \div 86400
        rem1 == seconds_active % 86400
        hours == rem1 \div 3600
        rem2 == rem1 % 3600
        minutes == rem2 \div 60
        seconds == rem2 % 60
    IN  IF days > 0
        THEN <<<<days, "d">>, <<hours, "h">>, <<minutes, "m">>, <<seconds, "s">>>>
        ELSE IF hours > 0
             THEN <<<<hours, "h">>, <<minutes, "m">>, <<seconds, "s">>>>
             ELSE <<<<minutes, "m">>, <<seconds, "s">>>>

InitDuration ==
    /\ program = "duration"
    /\ EMAIL_TO = <<"engineer">>
    /\ state_file = {}
    /\ InitLocals
    /\ IdleHistory
    /\ IdleCleanup
    /\ IdleCapture
    /\ IdleLog
    /\ duration \in DurationInputs
    /\ duration_str = <<>>
    /\ body = <<>>
    /\ rows = <<>>

\* the CLEAR branch composes the duration string
ComposeDuration ==
    /\ program = "duration"
    /\ duration_str = <<>>
    /\ duration_str' = DurationStr(duration)
    /\ UNCHANGED <<program, pc, clock, EMAIL_TO, state_file, events, restored_notices, duration, body, rows>>
    /\ UNCHANGED trackVars
    /\ UNCHANGED <<historyVars, cleanupVars, captureVars, logVars>>

(***************************************************************************)
(* The HTML table send_email builds from the body                          *)
(***************************************************************************)
\* _format_line(line, index): the kind of row, "" for no row
FormatLine(line, index) ==
    IF line = "blank" THEN ""
    ELSE IF index = 0 THEN "headline"
    ELSE IF line = "still" THEN "span"
    ELSE IF line = "pair" THEN "pair"
    ELSE "span"

\* ''.join(_format_line(line, i) for i, line in enumerate(body.splitlines()) if line.strip())
RECURSIVE TableRows(_, _)
TableRows(lines, i) ==
    IF lines = <<>> THEN <<>>
    ELSE IF Head(lines) # "blank"
         THEN <<FormatLine(Head(lines), i)>> \o TableRows(Tail(lines), i + 1)
         ELSE TableRows(Tail(lines), i + 1)

InitBody ==
    /\ program = "body"
    /\ EMAIL_TO = <<"engineer">>
    /\ state_file = {}
    /\ InitLocals
    /\ IdleHistory
    /\ IdleCleanup
    /\ IdleCapture
    /\ IdleLog
    /\ duration = 0
    /\ duration_str = <<>>
    /\ body \in Bodies
    /\ rows = <<>>

\* send_email builds the table of the HTML part; pc tells whether it has
BuildTable ==
    /\ program = "body"
    /\ pc = "sample"
    /\ pc' = "built"
    /\ rows' = TableRows(body, 0)
    /\ UNCHANGED <<program, clock, EMAIL_TO, state_file, events, restored_notices, duration, duration_str, body>>
    /\ UNCHANGED trackVars
    /\ UNCHANGED <<historyVars, cleanupVars, captureVars, logVars>>

(***************************************************************************)
(* Log housekeeping of src/Python/monitor_audio.py. Time is counted in     *)
(* whole days since the monitor was started: the module is imported during *)
(* day 0 and wake-up k of the cleanup thread falls in day k, a little      *)
(* later in the day than the stamp any earlier sweep of this run wrote.    *)
(* A file named after day D has file_date = midnight of D.                 *)
(***************************************************************************)
\* cleanup_old_logs: os.remove every dated file with file_date < now - LOG_RETENTION_DAYS days
RemainingLogs(files, now_day) ==
    {D \in files : ~(D + LOG_RETENTION_DAYS <= now_day)}

\* should_run_cleanup: no stamp, or (now - last_run).days >= LOG_RETENTION_DAYS
ShouldRunCleanup(stamp, now_day) ==
    IF stamp = {} THEN TRUE
    ELSE \E last_run \in stamp : now_day - last_run >= LOG_RETENTION_DAYS

InitCleanup ==
    /\ program = "cleanup"
    /\ pc = "startup"
    /\ clock = StartTime
    /\ EMAIL_TO = <<"engineer">>
    /\ state_file = {}
    /\ silent_count = 0
    /\ clear_count = 0
    /\ distortion_count = 0
    /\ alarm_active = FALSE
    /\ distortion_active = FALSE
    /\ last_alert_time_loss = 0
    /\ last_alert_time_distortion = 0
    /\ alert_start_loss = None
    /\ alert_start_distortion = None
    /\ last_health_email = 0
    /\ db = 0
    /\ events = <<>>
    /\ silent_run = 0
    /\ clear_run = 0
    /\ distorted_run = 0
    /\ last_emit = None
    /\ restored_notices = 0
    /\ IdleHistory
    /\ IdleFormat
    /\ today = 0
    /\ log_files \in SUBSET InitialLogDays
    /\ last_cleanup \in {{}} \cup {{D} : D \in InitialLogDays}
    /\ swept = FALSE
    /\ IdleCapture
    /\ IdleLog

\* module level: today's log file is opened, then "if should_run_cleanup(): cleanup_old_logs()"
StartupCleanup ==
    /\ program = "cleanup"
    /\ pc = "startup"
    /\ pc' = "sleeping"
    /\ IF ShouldRunCleanup(last_cleanup, today)
       THEN /\ log_files' = RemainingLogs(log_files \cup {today}, today)
            /\ last_cleanup' = {today}
            /\ swept' = TRUE
       ELSE /\ log_files' = log_files \cup {today}
            /\ UNCHANGED <<last_cleanup, swept>>
    /\ UNCHANGED <<program, clock, EMAIL_TO, state_file, events, restored_notices, today>>
    /\ UNCHANGED trackVars
    /\ UNCHANGED <<historyVars, formatVars, captureVars, logVars>>

\* cleanup_loop: time.sleep(24 * 3600), then "if should_run_cleanup(): cleanup_old_logs()"
WakeUp ==
    /\ program = "cleanup"
    /\ pc = "sleeping"
    /\ today < MaxDays
    /\ today' = today + 1
    /\ IF ShouldRunCleanup(last_cleanup, today + 1)
       THEN /\ log_files' = RemainingLogs(log_files, today + 1)
            /\ last_cleanup' = {today + 1}
            /\ swept' = TRUE
       ELSE /\ swept' = FALSE
            /\ UNCHANGED <<log_files, last_cleanup>>
    /\ UNCHANGED <<program, pc, clock, EMAIL_TO, state_file, events, restored_notices>>
    /\ UNCHANGED trackVars
    /\ UNCHANGED <<historyVars, formatVars, captureVars, logVars>>

(***************************************************************************)
(* Capture: safe_measure_rms and rms_to_dbfs (audio_utils.py)              *)
(***************************************************************************)
\* (variant: every exception of the capture is passed on to the caller)
SafeMeasureRms_Reraise(o) ==
    [raised |-> o.kind # "rms", rms |-> o.rms]

\* safe_measure_rms: PortAudioError is raised again, any other exception is
\* logged and 0.0 is returned
SafeMeasureRms(o) ==
    IF o.kind = "rms"
    THEN [raised |-> FALSE, rms |-> o.rms]
    ELSE IF o.kind = "PortAudioError"
         THEN [raised |-> TRUE, rms |-> 0]
         ELSE [raised |-> FALSE, rms |-> 0]

\* log10 of a power of ten
RECURSIVE Log10(_)
Log10(n) ==
    IF n < 10 THEN 0 ELSE 1 + Log10(n \div 10)

\* (variant: the level is clamped from below instead of tested:
\* 20 * log10(max(rms, 1e-12)))
RmsToDbfs_Clamped(r) ==
    IF r <= 0 THEN -240 ELSE 20 * (Log10(r) - Log10(RMS_SCALE))

\* rms_to_dbfs
RmsToDbfs(r) ==
    IF r <= 0 THEN -80 ELSE 20 * (Log10(r) - Log10(RMS_SCALE))

\* the run of swallowed capture failures after a capture that ended as o
FailedRun(o) ==
    IF o.kind = "Exception" THEN failed_run + 1 ELSE 0

\* an iteration whose capture returns: rms, db, then the two tracks
MeasuredSample(o, dt, E) ==
    /\ ~SafeMeasureRms(o).raised
    /\ SampleBody(RmsToDbfs(SafeMeasureRms(o).rms), dt, E)
    /\ rms' = SafeMeasureRms(o).rms
    /\ capture' = o.kind
    /\ failed_run' = FailedRun(o)
    /\ UNCHANGED <<historyVars, formatVars, cleanupVars, logVars>>

\* an iteration whose capture raises: the except PortAudioError handler
MeasureRaised(o, dt) ==
    /\ SafeMeasureRms(o).raised
    /\ DeviceErrorBody(dt)
    /\ capture' = o.kind
    /\ failed_run' = FailedRun(o)
    /\ UNCHANGED rms
    /\ UNCHANGED <<historyVars, formatVars, cleanupVars, logVars>>

\* an iteration whose capture returns, with the history it appends to: rms, db,
\* db_history.append / timestamp_history.append and the eviction, then the two tracks
MeasuredTick(o, dt, E) ==
    /\ ~SafeMeasureRms(o).raised
    /\ SampleBody(RmsToDbfs(SafeMeasureRms(o).rms), dt, E)
    /\ rms' = SafeMeasureRms(o).rms
    /\ capture' = o.kind
    /\ failed_run' = FailedRun(o)
    /\ db_history' = Remember(db_history, RmsToDbfs(SafeMeasureRms(o).rms))
    /\ timestamp_history' = Remember(timestamp_history, clock + dt)
    /\ UNCHANGED captured
    /\ UNCHANGED <<formatVars, cleanupVars, logVars>>

\* an iteration whose capture raises: safe_measure_rms is the first statement
\* of the try block, so nothing has been appended when the handler runs
FailedTick(o, dt) ==
    /\ SafeMeasureRms(o).raised
    /\ DeviceErrorBody(dt)
    /\ capture' = o.kind
    /\ failed_run' = FailedRun(o)
    /\ UNCHANGED rms
    /\ UNCHANGED <<historyVars, formatVars, cleanupVars, logVars>>

\* rms_to_dbfs alone: an rms is given
InitDbfs ==
    /\ InitLocals
    /\ program = "dbfs"
    /\ EMAIL_TO = <<"engineer">>
    /\ state_file = {}
    /\ IdleHistory
    /\ IdleFormat
    /\ IdleCleanup
    /\ rms \in RmsInputs
    /\ capture = "none"
    /\ failed_run = 0
    /\ IdleLog

\* db = rms_to_dbfs(rms)
ConvertLevel ==
    /\ program = "dbfs"
    /\ pc = "sample"
    /\ db' = RmsToDbfs(rms)
    /\ pc' = "converted"
    /\ UNCHANGED <<program, clock, EMAIL_TO, state_file, events, restored_notices>>
    /\ UNCHANGED <<silent_count, clear_count, distortion_count, alarm_active, distortion_active, last_alert_time_loss, last_alert_time_distortion, alert_start_loss, alert_start_distortion, last_health_email, silent_run, clear_run, distorted_run, last_emit>>
    /\ UNCHANGED <<historyVars, formatVars, cleanupVars, captureVars, logVars>>

(***************************************************************************)
(* generate_trend_plot and the mail that carries its result                *)
(***************************************************************************)
\* (variant: an empty history is plotted like any other)
GenerateTrendPlot_PlotsEmpty(history, raises) ==
    IF raises THEN {} ELSE {"embed_graph"}

\* generate_trend_plot: the piece it yields, nothing ({}) when it returns None.
\* raises says whether the import of matplotlib or the plotting raises, which
\* the function catches.
GenerateTrendPlot(history, raises) ==
    IF raises THEN {}
    ELSE IF history = <<>> THEN {}
    ELSE {"embed_graph"}

\* an event mail is composed from a level history
InitPlot ==
    /\ InitLocals
    /\ program = "plot"
    /\ EMAIL_TO \in {<<>>, <<"engineer">>}
    /\ state_file \in {{}} \cup {FailedState(e, StartTime - 60) : e \in ProbeErrors}
    /\ db_history \in PlotHistories
    /\ timestamp_history = [i \in DOMAIN db_history |-> StartTime]
    /\ captured = <<>>
    /\ IdleFormat
    /\ IdleCleanup
    /\ IdleCapture
    /\ IdleLog

\* trend_b64 = generate_trend_plot(db_history, ...), then
\* send_email(subject, body, attachment=logs, embed_graph=trend_b64, audio_clip=clip)
PlotAndSend(raises, w) ==
    /\ program = "plot"
    /\ pc = "sample"
    /\ \E c \in {SendEmailWith("ALERT: Audio Loss",
                               {"attachment", "audio_clip"} \cup GenerateTrendPlot(db_history, raises),
                               {}, state_file, EMAIL_TO, w, clock)} :
          /\ state_file' = c.state_file
          /\ clock' = c.now
          /\ events' = <<c>>
    /\ pc' = "sent"
    /\ UNCHANGED <<program, EMAIL_TO, restored_notices>>
    /\ UNCHANGED trackVars
    /\ UNCHANGED auxVars

(***************************************************************************)
(* The log file and the excerpt of it that goes with an event              *)
(* (extract_recent_logs of the monitors, clean_logs of audio_utils.py)     *)
(***************************************************************************)
\* s[-n:] for n >= 1
LastLines(s, n) ==
    SubSeq(s, IF Len(s) > n THEN Len(s) - n + 1 ELSE 1, Len(s))

\* line.strip()
Strip(line) ==
    line.text

\* [line.strip() for line in log_text.splitlines() if line.strip()]
RECURSIVE StrippedNonEmpty(_)
StrippedNonEmpty(s) ==
    IF s = <<>> THEN <<>>
    ELSE IF Strip(Head(s)) # ""
         THEN <<Strip(Head(s))>> \o StrippedNonEmpty(Tail(s))
         ELSE StrippedNonEmpty(Tail(s))

\* clean_logs
CleanLogs(s) ==
    LastLines(StrippedNonEmpty(s), CLEAN_LOGS_KEEP)

\* extract_recent_logs(lines=n): f.readlines()[-lines:], then clean_logs
ExtractRecentLogs(file, n) ==
    CleanLogs(LastLines(file, n))

\* the monitor has set up its logger: the file handler writes to LOG_FILE
\* (testtest.py) or to TODAY_LOG_FILE (Python/monitor_audio.py, which removes
\* the handlers config.py installed)
InitLog ==
    /\ InitLocals
    /\ program = "log"
    /\ EMAIL_TO = <<"engineer">>
    /\ state_file = {}
    /\ IdleHistory
    /\ IdleFormat
    /\ IdleCleanup
    /\ IdleCapture
    /\ log_file \in LogContents
    /\ today_log_file = <<>>
    /\ handler_file \in {"LOG_FILE", "TODAY_LOG_FILE"}
    /\ lines_arg = 0
    /\ excerpt = <<>>

\* logger.info(f"Audio Level: {db:.1f} dBFS")
LogAudioLevel ==
    /\ program = "log"
    /\ pc = "sample"
    /\ IF handler_file = "LOG_FILE"
       THEN /\ log_file' = Append(log_file, AudioLevelLine)
            /\ UNCHANGED today_log_file
       ELSE /\ today_log_file' = Append(today_log_file, AudioLevelLine)
            /\ UNCHANGED log_file
    /\ pc' = "logged"
    /\ UNCHANGED <<handler_file, lines_arg, excerpt>>
    /\ UNCHANGED <<program, clock, EMAIL_TO, state_file, events, restored_notices>>
    /\ UNCHANGED trackVars
    /\ UNCHANGED <<historyVars, formatVars, cleanupVars, captureVars>>

\* logs = extract_recent_logs(lines=n): LOG_FILE is opened and read
ExtractLogs(n) ==
    /\ program = "log"
    /\ pc = "logged"
    /\ lines_arg' = n
    /\ excerpt' = ExtractRecentLogs(log_file, n)
    /\ pc' = "extracted"
    /\ UNCHANGED <<log_file, today_log_file, handler_file>>
    /\ UNCHANGED <<program, clock, EMAIL_TO, state_file, events, restored_notices>>
    /\ UNCHANGED trackVars
    /\ UNCHANGED <<historyVars, formatVars, cleanupVars, captureVars>>

(***************************************************************************)
(* Specifications                                                          *)
(***************************************************************************)
Next ==
    \/ \E d \in Levels, dt \in TickSeconds : Sample(d, dt, EvidenceRun)
    \/ \E dt \in TickSeconds : DeviceError(dt)
    \/ \E p \in ProbeOutcomes, w \in Worlds : RecoveryCheck(p, w)
    \/ \E w \in Worlds : HealthCheck(w)
    \/ \E d \in SimpleLevels, dt \in TickSeconds, w \in Worlds : SimpleTick(d, dt, w)

Spec ==
    Init /\ [][Next]_vars

\* the full monitor, every outcome of the evidence
InitEvidence ==
    /\ Init
    /\ program = "full"

NextEvidence ==
    \/ \E d \in EvidenceLevels, dt \in EvidenceTickSeconds : Sample(d, dt, EvidenceCases)
    \/ \E dt \in EvidenceTickSeconds : DeviceError(dt)
    \/ \E p \in ProbeOutcomes, w \in Worlds : RecoveryCheck(p, w)
    \/ \E w \in Worlds : HealthCheck(w)

SpecEvidence ==
    InitEvidence /\ [][NextEvidence]_vars

NextHistory ==
    \E d \in HistoryLevels, dt \in HistoryTickSeconds : Capture(d, dt)

SpecHistory ==
    InitHistory /\ [][NextHistory]_vars

NextDuration ==
    ComposeDuration

SpecDuration ==
    InitDuration /\ [][NextDuration]_vars

NextBody ==
    BuildTable

SpecBody ==
    InitBody /\ [][NextBody]_vars

NextCleanup ==
    \/ StartupCleanup
    \/ WakeUp

SpecCleanup ==
    InitCleanup /\ [][NextCleanup]_vars

\* the full monitor with the capture followed
InitCapture ==
    /\ Init
    /\ program = "full"

NextCapture ==
    \/ \E o \in CaptureOutcomes, dt \in TickSeconds : MeasuredSample(o, dt, {NoEvidenceFailure})
    \/ \E o \in CaptureOutcomes, dt \in TickSeconds : MeasureRaised(o, dt)
    \/ \E p \in ProbeOutcomes, w \in Worlds : RecoveryCheck(p, w)
    \/ \E w \in Worlds : HealthCheck(w)

SpecCapture ==
    InitCapture /\ [][NextCapture]_vars

NextDevice ==
    \/ \E o \in CaptureOutcomes, dt \in DeviceTickSeconds : MeasuredTick(o, dt, {NoEvidenceFailure})
    \/ \E o \in CaptureOutcomes, dt \in DeviceTickSeconds : FailedTick(o, dt)
    \/ \E p \in ProbeOutcomes, w \in Worlds : RecoveryCheck(p, w)
    \/ \E w \in Worlds : HealthCheck(w)

SpecDevice ==
    InitCapture /\ [][NextDevice]_vars

NextDbfs ==
    ConvertLevel

SpecDbfs ==
    InitDbfs /\ [][NextDbfs]_vars

NextPlot ==
    \E raises \in BOOLEAN, w \in AllWorlds : PlotAndSend(raises, w)

SpecPlot ==
    InitPlot /\ [][NextPlot]_vars

NextLog ==
    \/ LogAudioLevel
    \/ \E n \in LinesArgs : ExtractLogs(n)

SpecLog ==
    InitLog /\ [][NextLog]_vars

\* Python/monitor_audio.py, followed past its second health mail
InitHealth ==
    /\ InitLocals
    /\ program = "dated"
    /\ EMAIL_TO = <<"engineer">>
    /\ state_file = {}
    /\ IdleHistory
    /\ IdleFormat
    /\ IdleCleanup
    /\ IdleCapture
    /\ IdleLog

NextHealth ==
    \/ \E d \in HealthLevels, dt \in HealthTickSeconds : Sample(d, dt, {NoEvidenceFailure})
    \/ \E p \in {"200"} : RecoveryCheck(p, WorldUp)
    \/ HealthCheck(WorldUp)

SpecHealth ==
    InitHealth /\ [][NextHealth]_vars

\* the network comes back and stays: from here on the probes answer 200 and
\* the SMTP sessions go through
Reconnect ==
    /\ program = "outage"
    /\ clock - StartTime < Horizon(program)
    /\ program' = "restored"
    /\ UNCHANGED <<pc, clock, EMAIL_TO, state_file, events, restored_notices>>
    /\ UNCHANGED trackVars
    /\ UNCHANGED auxVars

InitOutage ==
    /\ InitLocals
    /\ program = "outage"
    /\ EMAIL_TO = <<"engineer">>
    /\ state_file = {}
    /\ IdleHistory
    /\ IdleFormat
    /\ IdleCleanup
    /\ IdleCapture
    /\ IdleLog

\* one step of the loop: the try block, the recovery check or the health block
LoopStep ==
    \/ \E d \in OutageLevels, dt \in OutageTickSeconds : Sample(d, dt, {NoEvidenceFailure})
    \/ \E p \in LoopProbes(program), w \in RunWorlds(program) : RecoveryCheck(p, w)
    \/ \E w \in RunWorlds(program) : HealthCheck(w)

NextOutage ==
    \/ LoopStep
    \/ Reconnect

\* while True: the loop goes on as long as it can take a step
SpecOutage ==
    InitOutage /\ [][NextOutage]_vars /\ WF_vars(LoopStep)

NextMail ==
    \E subject \in {"ALERT: Audio Loss", "Audio Health Check"}, w \in AllWorlds : MailCall(subject, w)

SpecMail ==
    InitMail /\ [][NextMail]_vars


(***************************************************************************)
(* Properties                                                              *)
(***************************************************************************)
\* the state right after the Sample step of the full monitor
AfterSample ==
    program = "full" /\ pc = "recovery"

MessageSubs(c) ==
    {j \in 1..Len(c.subs) : c.subs[j].kind = "message"}

NoticeSubs(c) ==
    {j \in 1..Len(c.subs) : c.subs[j].kind = "notice"}

\* C1: in the full monitor a loss ALERT is sent on a tick exactly when the
\* tick's sample is the SILENCE_LIMIT-th consecutive silent sample seen while
\* no alarm was active; it is sent once; a sample that is not silent leaves
\* silent_count = 0 and sends no ALERT.
C1_AlertIffSilenceLimit ==
    AfterSample =>
        /\ Fired(events, "ALERT: Audio Loss") <=> (silent_run = SILENCE_LIMIT)
        /\ Cardinality(Calls(events, "ALERT: Audio Loss")) <= 1
        /\ ~IsSilent(db) => (silent_count = 0 /\ ~Fired(events, "ALERT: Audio Loss"))

C1_Witness ==
    /\ AfterSample
    /\ Fired(events, "ALERT: Audio Loss")
    /\ silent_run = SILENCE_LIMIT
    /\ alarm_active

\* C2: a CLEAR is sent only on a tick whose sample is the CLEAR_LIMIT-th
\* consecutive clear sample received while the loss alarm was active.
C2_ClearOnlyOnConsecutive ==
    Fired(events, "CLEAR: Audio Restored") => clear_run = CLEAR_LIMIT

\* C3: every REMINDER is called at least REMINDER_INTERVAL seconds after the
\* ALERT or REMINDER call before it in the same alarm; an ALERT is the first
\* call of its alarm; a tick sends at most one REMINDER, and the REMINDER sets
\* the timer to the time its send_email call returned, the alarm staying active;
\* after a tick whose sample is not clear, less than REMINDER_INTERVAL seconds
\* have passed since the latest ALERT or REMINDER of an active alarm.
C3_ReminderSpacing ==
    /\ \A i \in Calls(events, "REMINDER: Audio Still Lost") :
           /\ events[i].prev_emit # None
           /\ events[i].called - events[i].prev_emit >= REMINDER_INTERVAL
           /\ alarm_active
           /\ last_alert_time_loss = events[i].now
    /\ \A i \in Calls(events, "ALERT: Audio Loss") : events[i].prev_emit = None
    /\ Cardinality(Calls(events, "REMINDER: Audio Still Lost")) <= 1
    /\ (AfterSample /\ alarm_active /\ ~IsClear(db)) => clock - last_alert_time_loss < REMINDER_INTERVAL

C3_Witness ==
    /\ AfterSample
    /\ \E i \in Calls(events, "REMINDER: Audio Still Lost") :
           /\ events[i].called - events[i].prev_emit = REMINDER_INTERVAL
           /\ events[i].called - alert_start_loss > REMINDER_INTERVAL

\* C4: a distortion ALERT is sent only on a tick whose sample is the 3rd
\* consecutive distorted sample received while no distortion alarm was active.
C4_DistortionOnlyOnConsecutive ==
    Fired(events, "ALERT: Audio Distortion") => distorted_run = DISTORTION_LIMIT

\* C5: a send_email call whose probe raises writes the flag {failed: true,
\* reason: str(e), timestamp: now}, returns False and opens no SMTP session.
C5_UnreachableSetsFlag ==
    \A i \in 1..Len(events) :
        events[i].probe \in ProbeErrors =>
            /\ events[i].state_file = {[failed |-> TRUE, reason |-> events[i].probe, timestamp |-> events[i].called]}
            /\ events[i].ret = FALSE
            /\ events[i].subs = <<>>
            /\ (program = "mail" => state_file = events[i].state_file)

C5_Witness ==
    /\ program = "mail"
    /\ events # <<>>
    /\ events[1].probe \in ProbeErrors
    /\ events[1].entry_file = {}
    /\ state_file # {}

\* C6: a send_email call with probe status 200 made while the flag exists
\* opens the SMTP session of a recovery notice that quotes the stored reason
\* and timestamp, before every session of the requested message, and the
\* flag does not exist when the call returns.
C6_NoticeBeforeMessage ==
    \A i \in 1..Len(events) :
        (events[i].probe = "200" /\ events[i].entry_file # {}) =>
            /\ NoticeSubs(events[i]) = {1}
            /\ events[i].subs[1].previous = events[i].entry_file
            /\ \A j \in MessageSubs(events[i]) : j > 1
            /\ events[i].state_file = {}
            /\ (program = "mail" => state_file = {})

C6_Witness ==
    /\ program = "mail"
    /\ events # <<>>
    /\ events[1].probe = "200"
    /\ events[1].entry_file # {}
    /\ Len(events[1].subs) >= 2
    /\ events[1].subs[1].ok
    /\ events[1].subs[2].kind = "message"

\* C7: for one outage at most one 'Internet Connection Restored' mail is
\* delivered.
C7_OneRestoredNotice ==
    restored_notices <= 1

\* C8: the flag exists while the recovery notice is submitted; a call that
\* found the flag and delivered no notice leaves the flag in place; after a
\* recovery check of the main loop whose send_email call returned False the
\* flag is still there.
C8_FlagClearedAfterNotice ==
    /\ \A i \in 1..Len(events) :
           /\ \A j \in NoticeSubs(events[i]) : events[i].subs[j].flag_present
           /\ (events[i].entry_file # {} /\ ~\E j \in NoticeSubs(events[i]) : events[i].subs[j].ok)
                  => events[i].state_file # {}
    /\ (program = "full" /\ pc = "health" /\ events # <<>> /\ ~events[1].ret) => state_file # {}

\* the retry loop of call c ran to its end without a session going through
AllAttemptsFailed(c) ==
    /\ Cardinality(MessageSubs(c)) = MAX_ATTEMPTS
    /\ \A j \in MessageSubs(c) : ~c.subs[j].ok

\* C9: a send_email call whose attempts all fail returns False and writes the
\* failure flag.
C9_FlagOnDeliveryFailure ==
    \A i \in 1..Len(events) :
        AllAttemptsFailed(events[i]) =>
            /\ events[i].ret = FALSE
            /\ \E f \in events[i].state_file : f.failed /\ f.timestamp >= events[i].called

\* the sessions of the requested message, in the order they were opened
MessageSeq(c) ==
    SubSeq(c.subs, Len(c.subs) - Cardinality(MessageSubs(c)) + 1, Len(c.subs))

\* the claim of C10 about every call, but for when False is returned
RetryLoopShape(c) ==
    LET m == MessageSeq(c)
    IN  /\ Len(m) <= MAX_ATTEMPTS
        /\ \A j \in 1..Len(m) : m[j].kind = "message"
        /\ \A j \in 1..(Len(m) - 1) : ~m[j].ok
        /\ c.ret \in BOOLEAN
        /\ c.ret <=> (\E j \in 1..Len(m) : m[j].ok)
        /\ c.ret => (m[Len(m)].ok /\ Len(c.sleeps) = Len(m) - 1)
        /\ ~c.ret => Len(c.sleeps) = Len(m)
        /\ \A k \in 1..Len(c.sleeps) : c.sleeps[k] = 5 * k
        /\ c.now = c.called + SumSeq(c.sleeps)

\* C10 as claimed: in addition, False is returned only after 3 failed attempts.
C10_FalseOnlyAfterThreeAttempts ==
    \A i \in 1..Len(events) :
        /\ RetryLoopShape(events[i])
        /\ ~events[i].ret => AllAttemptsFailed(events[i])

\* C10 amended: False is returned after 3 failed attempts, or without any
\* attempt when the probe raised or no recipient is configured.
C10_RetryLoop ==
    \A i \in 1..Len(events) :
        /\ RetryLoopShape(events[i])
        /\ ~events[i].ret =>
               \/ AllAttemptsFailed(events[i]) /\ events[i].sleeps = <<5, 10, 15>>
               \/ /\ MessageSubs(events[i]) = {}
                  /\ events[i].sleeps = <<>>
                  /\ (events[i].probe \in ProbeErrors \/ EMAIL_TO = <<>>)
        /\ (events[i].probe \notin ProbeErrors /\ EMAIL_TO # <<>>) => MessageSubs(events[i]) # {}

C10_Witness ==
    /\ program = "mail"
    /\ events # <<>>
    /\ events[1].ret
    /\ events[1].sleeps = <<5, 10>>
    /\ Cardinality(MessageSubs(events[1])) = 3


\* C11: in the full monitor, whatever evidence builders fail and whatever
\* attach blocks raise, every ALERT, CLEAR and REMINDER call of send_email gets
\* exactly the pieces that did not fail (the others are None); the event's
\* state transition is made; and when the probe answers and a recipient is
\* configured the message is submitted to SMTP carrying the pieces whose
\* attach block did not raise.
C11_EvidenceFailureDoesNotBlock ==
    AfterSample =>
        /\ \A i \in 1..Len(events) :
              /\ events[i].passed = Pieces \ events[i].failed
              /\ (events[i].probe \notin ProbeErrors /\ EMAIL_TO # <<>>) =>
                    /\ MessageSubs(events[i]) # {}
                    /\ events[i].attached = events[i].passed \ events[i].attach_failed
        /\ (silent_run = SILENCE_LIMIT) => Fired(events, "ALERT: Audio Loss")
        /\ Fired(events, "ALERT: Audio Loss") => (alarm_active /\ alert_start_loss # None /\ silent_count = 0)
        /\ Fired(events, "CLEAR: Audio Restored") => (~alarm_active /\ alert_start_loss = None /\ clear_count = 0)
        /\ \A i \in Calls(events, "REMINDER: Audio Still Lost") : (alarm_active /\ last_alert_time_loss = events[i].now)
        /\ Fired(events, "ALERT: Audio Distortion") => distortion_active

C11_Witness ==
    /\ AfterSample
    /\ \E i \in Calls(events, "CLEAR: Audio Restored") :
          /\ events[i].failed = {"attachment", "audio_clip"}
          /\ events[i].attach_failed = {"embed_graph"}
          /\ events[i].ret
    /\ ~alarm_active

\* a step that processes one captured sample: Sample of the full monitor,
\* SimpleTick of the simple monitor
TickStep ==
    \/ program = "full" /\ pc = "sample" /\ pc' = "recovery"
    \/ program = "simple" /\ clock' # clock

\* the thresholds of the running monitor
SilenceThresholdOf(prog) ==
    IF prog = "simple" THEN SIMPLE_SILENCE_THRESHOLD_DB ELSE SILENCE_THRESHOLD_DB

ClearThresholdOf(prog) ==
    IF prog = "simple" THEN SIMPLE_CLEAR_THRESHOLD_DB ELSE CLEAR_THRESHOLD_DB

C13_ReminderOnEveryDueTick ==
    (AfterSample /\ alarm_active /\ events = <<>>) =>
        clock - last_alert_time_loss < REMINDER_INTERVAL

\* C14: the REMINDER branch of the full monitor assigns last_alert_time_loss
\* only: alarm_active, alert_start_loss, silent_count, clear_count and the
\* distortion-track locals are the same when the branch ends as when it called
\* send_email; the alarm is active and the timer is the time the call returned.
C14_ReminderFrame ==
    AfterSample =>
        \A i \in Calls(events, "REMINDER: Audio Still Lost") :
            /\ events[i].after = events[i].before
            /\ events[i].after.alarm_active
            /\ events[i].after.alert_start_loss # None
            /\ alarm_active
            /\ alert_start_loss = events[i].before.alert_start_loss
            /\ last_alert_time_loss = events[i].now

C14_Witness ==
    /\ AfterSample
    /\ Fired(events, "REMINDER: Audio Still Lost")
    /\ clear_count = 1
    /\ distortion_count = 2

\* the Sample step of the full monitor
SampleStep ==
    program = "full" /\ pc = "sample" /\ pc' = "recovery"

\* C15: in the full monitor, while the distortion alarm is active a tick whose
\* sample is at or below DISTORTION_THRESHOLD_DB ends with distortion_active
\* FALSE and distortion_count 0, and a tick whose sample is above it leaves the
\* alarm active; neither sends a distortion mail. distortion_count grows by at
\* most one per tick and only on a distorted sample, and a distortion ALERT is
\* sent only on a distorted sample that brings the count to 3, so after the
\* clear (count 0) a new ALERT takes 3 further distorted samples.
C15_DistortionClear ==
    [][SampleStep =>
        /\ distortion_active =>
              /\ ~Fired(events', "ALERT: Audio Distortion")
              /\ IF db' <= DISTORTION_THRESHOLD_DB
                 THEN ~distortion_active' /\ distortion_count' = 0
                 ELSE distortion_active' /\ distortion_count' = distortion_count
        /\ distortion_count' <= distortion_count + 1
        /\ distortion_count' > distortion_count => (IsDistorted(db') /\ ~distortion_active)
        /\ Fired(events', "ALERT: Audio Distortion") =>
              /\ ~distortion_active /\ distortion_active'
              /\ IsDistorted(db')
              /\ distortion_count + 1 = DISTORTION_LIMIT
              /\ Cardinality(Calls(events', "ALERT: Audio Distortion")) = 1
    ]_vars

C15_Witness ==
    /\ AfterSample
    /\ alert_start_distortion # None
    /\ ~distortion_active
    /\ distortion_count = 0
    /\ db <= DISTORTION_THRESHOLD_DB
    /\ events = <<>>

\* the last n entries of a sequence
LastN(s, n) ==
    SubSeq(s, Len(s) - n + 1, Len(s))

\* how many of the captured samples the history holds
Kept ==
    IF Len(captured) > MAX_HISTORY THEN MAX_HISTORY ELSE Len(captured)

\* C16: after every capture db_history and timestamp_history have the same
\* length, at most MAX_HISTORY, and hold the levels and times of the most
\* recent captures in arrival order; hence once full each capture drops
\* exactly the oldest entry of both lists.
C16_BoundedHistory ==
    /\ Len(db_history) = Len(timestamp_history)
    /\ Len(db_history) <= MAX_HISTORY
    /\ Len(db_history) = Kept
    /\ \A i \in 1..Kept :
          /\ db_history[i] = LastN(captured, Kept)[i][1]
          /\ timestamp_history[i] = LastN(captured, Kept)[i][2]

C16_Witness ==
    /\ program = "history"
    /\ Len(captured) = MAX_HISTORY + 2
    /\ Len(db_history) = MAX_HISTORY
    /\ captured[2][1] = -1
    /\ captured[3][1] = -1
    /\ db_history[1] = -1
    /\ timestamp_history[1] = captured[3][2]

\* seconds in one unit of the duration string
UnitSeconds(unit) ==
    CASE unit = "d" -> 86400
      [] unit = "h" -> 3600
      [] unit = "m" -> 60
      [] unit = "s" -> 1

\* largest value a field below days may print: hours < 24, minutes < 60, seconds < 60
UnitLimit(unit) ==
    CASE unit = "h" -> 23
      [] unit = "m" -> 59
      [] unit = "s" -> 59

RECURSIVE TotalSeconds(_)
TotalSeconds(str) ==
    IF str = <<>> THEN 0 ELSE Head(str)[1] * UnitSeconds(Head(str)[2]) + TotalSeconds(Tail(str))

UnitsOf(str) ==
    [i \in 1..Len(str) |-> str[i][2]]

\* C17: the duration string of a CLEAR is the days/hours/minutes/seconds
\* decomposition of the seconds the alarm was active: its fields add up to the
\* duration with hours < 24, minutes < 60, seconds < 60, units in descending
\* order; 3661 s prints "1h 1m 1s" and 90 s prints "1m 30s".
C17_DurationDecomposition ==
    (program = "duration" /\ duration_str # <<>>) =>
        /\ TotalSeconds(duration_str) = duration
        /\ \A i \in 1..Len(duration_str) :
              /\ duration_str[i][1] >= 0
              /\ duration_str[i][2] # "d" => duration_str[i][1] <= UnitLimit(duration_str[i][2])
        /\ UnitsOf(duration_str) \in {<<"d", "h", "m", "s">>, <<"h", "m", "s">>, <<"m", "s">>, <<"s">>}
        /\ duration = 3661 => duration_str = <<<<1, "h">>, <<1, "m">>, <<1, "s">>>>
        /\ duration = 90 => duration_str = <<<<1, "m">>, <<30, "s">>>>

C17_Witness ==
    /\ program = "duration"
    /\ duration = 90061
    /\ duration_str = <<<<1, "d">>, <<1, "h">>, <<1, "m">>, <<1, "s">>>>

\* C18: the duration string of a CLEAR starts at the largest non-zero unit:
\* under 60 s it has the seconds field only, under one hour no hours field,
\* under one day no days field, and its first field is not zero unless it is
\* the only one.
C18_LeadingZeroUnitsDropped ==
    (program = "duration" /\ duration_str # <<>>) =>
        /\ duration < 60 => UnitsOf(duration_str) = <<"s">>
        /\ duration < 3600 => \A i \in 1..Len(duration_str) : duration_str[i][2] \notin {"d", "h"}
        /\ duration < 86400 => \A i \in 1..Len(duration_str) : duration_str[i][2] # "d"
        /\ (duration_str[1][1] # 0 \/ Len(duration_str) = 1)

\* C19: for every body that has a non-empty line, the first row of the table
\* send_email builds is the full-width headline row made from the first
\* non-empty line, also when blank lines precede that line and also when it
\* contains ':'.
C19_FirstLineIsHeadline ==
    (program = "body" /\ pc = "built" /\ \E i \in 1..Len(body) : body[i] # "blank") =>
        /\ rows # <<>>
        /\ rows[1] = "headline"

\* C20: every wake-up of the cleanup thread runs the log-retention sweep, so
\* after any wake-up no dated log file older than LOG_RETENTION_DAYS is left.
C20_DailySweep ==
    (program = "cleanup" /\ pc = "sleeping" /\ today >= 1) =>
        /\ swept
        /\ \A D \in log_files : ~(D + LOG_RETENTION_DAYS <= today)

(***************************************************************************)
(* C21: capture-failure policy                                             *)
(***************************************************************************)
\* a step that is one call of safe_measure_rms with what follows it in the
\* iteration
CaptureStep ==
    pc = "sample" /\ clock' # clock

\* C21: a PortAudioError of the capture reaches the loop, whose handler leaves
\* the tracks alone and starts the next iteration; any other capture exception
\* gives rms 0, hence -80 dBFS, and is counted as one silent sample; with
\* SILENCE_THRESHOLD_DB > -80, SILENCE_LIMIT such captures in a row raise the
\* loss ALERT
C21_CaptureFailurePolicy ==
    [][CaptureStep =>
        /\ capture' = "PortAudioError" =>
              /\ pc' = "sample"
              /\ events' = <<>>
              /\ UNCHANGED trackVars
        /\ capture' = "Exception" =>
              /\ rms' = 0
              /\ db' = -80
              /\ pc' = "recovery"
              /\ SILENCE_THRESHOLD_DB > -80 /\ ~alarm_active =>
                    \/ silent_count' = silent_count + 1 /\ silent_count' < SILENCE_LIMIT
                    \/ Fired(events', "ALERT: Audio Loss") /\ alarm_active'
        /\ SILENCE_THRESHOLD_DB > -80 /\ failed_run' >= SILENCE_LIMIT =>
              /\ alarm_active'
              /\ ~alarm_active => Fired(events', "ALERT: Audio Loss")
    ]_vars

\* the third swallowed capture failure in a row raises the ALERT
C21_Witness ==
    /\ capture = "Exception"
    /\ failed_run = SILENCE_LIMIT
    /\ Fired(events, "ALERT: Audio Loss")
    /\ pc = "recovery"

(***************************************************************************)
(* C22, C23: rms_to_dbfs at and below zero                                 *)
(***************************************************************************)
\* rms_to_dbfs has returned
Converted ==
    program = "dbfs" /\ pc = "converted"

C23_ZeroNearMinus240 ==
    Converted /\ rms = 0 => db >= -241 /\ db <= -239

(***************************************************************************)
(* C24: empty level history                                                *)
(***************************************************************************)
\* the mail composed from the history has been handed to send_email
PlotSent ==
    program = "plot" /\ pc = "sent"

\* C24: for an empty level history the plot builder yields no image, and the
\* mail goes its usual way without an inline graph: send_email gets the other
\* pieces, submits the message when the probe answers and a recipient is
\* configured, and returns True exactly when an attempt is accepted
C24_EmptyHistoryNoGraph ==
    PlotSent /\ db_history = <<>> =>
        /\ "embed_graph" \notin events[1].passed
        /\ "embed_graph" \notin events[1].attached
        /\ events[1].passed = {"attachment", "audio_clip"}
        /\ (events[1].probe \notin ProbeErrors /\ EMAIL_TO # <<>>) =>
              /\ MessageSubs(events[1]) # {}
              /\ events[1].attached = {"attachment", "audio_clip"}
              /\ events[1].ret <=> \E j \in MessageSubs(events[1]) : events[1].subs[j].ok

\* the mail of an empty history is delivered
C24_Witness ==
    /\ PlotSent
    /\ db_history = <<>>
    /\ events[1].ret
    /\ "embed_graph" \notin events[1].attached

(***************************************************************************)
(* C25, C26: the log excerpt                                               *)
(***************************************************************************)
\* extract_recent_logs has returned
LogExtracted ==
    program = "log" /\ pc = "extracted"

\* C25: in the monitor with dated log files, the excerpt taken for an event
\* comes from the file the logger writes to, so it ends with the 'Audio Level'
\* line of the tick
C25_ExcerptFromCurrentLog ==
    LogExtracted /\ handler_file = "TODAY_LOG_FILE" =>
        /\ excerpt # <<>>
        /\ excerpt[Len(excerpt)] = Strip(AudioLevelLine)

\* C26: extract_recent_logs(lines=N) returns the last min(N, k) of the k
\* non-empty lines of the file, stripped, in order
C26_LastNonEmptyLines ==
    LogExtracted =>
        LET all == StrippedNonEmpty(log_file)
            k == Len(all)
        IN  excerpt = LastLines(all, IF lines_arg < k THEN lines_arg ELSE k)

(***************************************************************************)
(* C27: submissions and the probe                                          *)
(***************************************************************************)
\* C27: a send_email call opens an SMTP session only if its own probe answered
\* with status 200; with any other outcome of the probe it submits nothing and
\* returns False
C27_SubmitOnlyAfterProbe200 ==
    \A i \in 1..Len(events) :
        events[i].probe # "200" => (events[i].subs = <<>> /\ ~events[i].ret)

(***************************************************************************)
(* C28: the two tracks                                                     *)
(***************************************************************************)
\* the loss track of one iteration: the ALERT block, then the RESTORED block
\* with its REMINDER elif
LossTrack(L, d, w) ==
    AudioRestored(AudioLossAlert(L, d, w), d, w)

\* the worlds an iteration may meet, the evidence in order
TrackWorlds ==
    {NoEvidenceFailure @@ w : w \in Worlds}

\* C28: on every tick with a captured sample both tracks are run on that
\* sample, whatever the other one does: the loss variables end as the loss
\* track alone leaves them, the distortion variables as the distortion block
\* alone leaves them; the loss track leaves the distortion variables as they
\* were, and the distortion block leaves alarm_active, silent_count,
\* clear_count, alert_start_loss and last_alert_time_loss as they were
C28_TracksIndependent ==
    [][SampleStep =>
        \A w \in TrackWorlds :
          \A L0 \in {Locals(clock)} :
            \A A \in {LossTrack(L0, db', w)} :
              \A D \in {Distortion(L0, db', w)} :
                /\ A.distortion_count = L0.distortion_count
                /\ A.distortion_active = L0.distortion_active
                /\ D.alarm_active = L0.alarm_active
                /\ D.silent_count = L0.silent_count
                /\ D.clear_count = L0.clear_count
                /\ D.alert_start_loss = L0.alert_start_loss
                /\ D.last_alert_time_loss = L0.last_alert_time_loss
                /\ alarm_active' = A.alarm_active
                /\ silent_count' = A.silent_count
                /\ clear_count' = A.clear_count
                /\ (alert_start_loss' = None) = (A.alert_start_loss = None)
                /\ distortion_count' = D.distortion_count
                /\ distortion_active' = D.distortion_active
    ]_vars

\* a tick on which the loss track sends the CLEAR and the distortion track
\* counts the same sample
C28_Witness ==
    /\ AfterSample
    /\ \E i \in Calls(events, "CLEAR: Audio Restored") :
          /\ events[i].before.distortion_count = 1
          /\ events[i].after.distortion_count = 1
    /\ distortion_count = 2
    /\ IsDistorted(db)

(***************************************************************************)
(* C29: invariants of the full monitor's locals                            *)
(***************************************************************************)
\* C29: in the full monitor, whenever an iteration has processed its sample
\* and until the next one does, the three counters stay below their limits
\* and are never negative, silent_count is 0 while the loss alarm is active,
\* clear_count is 0 while it is not, distortion_count is 0 while the distortion
\* alarm is active, and alert_start_loss is set exactly while the loss alarm
\* is active
C29_LocalsInvariant ==
    program = "full" =>
        /\ SILENCE_LIMIT >= 1 /\ CLEAR_LIMIT >= 1
        /\ 0 <= silent_count /\ silent_count < SILENCE_LIMIT
        /\ 0 <= clear_count /\ clear_count < CLEAR_LIMIT
        /\ 0 <= distortion_count /\ distortion_count < DISTORTION_LIMIT
        /\ alarm_active => silent_count = 0
        /\ ~alarm_active => clear_count = 0
        /\ distortion_active => distortion_count = 0
        /\ (alert_start_loss # None) <=> alarm_active

\* between two ticks, with the loss alarm active and a clear sample counted
C29_Witness ==
    /\ program = "full"
    /\ pc = "sample"
    /\ alarm_active
    /\ alert_start_loss # None
    /\ clear_count = CLEAR_LIMIT - 1
    /\ distortion_count = DISTORTION_LIMIT - 1
    /\ silent_count = 0

(***************************************************************************)
(* C30: shape of the loss-track emissions                                  *)
(***************************************************************************)
\* C30: the loss-track mails come in the order (ALERT REMINDER* CLEAR)*: an
\* ALERT is sent only when no ALERT has been sent since the last CLEAR, a
\* REMINDER and a CLEAR only when one has
C30_EmissionShape ==
    \A i \in 1..Len(events) :
        /\ events[i].subject = "ALERT: Audio Loss" => events[i].prev_emit = None
        /\ events[i].subject \in {"REMINDER: Audio Still Lost", "CLEAR: Audio Restored"} =>
              events[i].prev_emit # None

\* a CLEAR that follows an ALERT and a REMINDER
C30_Witness ==
    /\ AfterSample
    /\ \E i \in Calls(events, "CLEAR: Audio Restored") :
          /\ events[i].prev_emit # None
          /\ events[i].prev_emit > events[i].before.alert_start_loss

(***************************************************************************)
(* C31: one loss-track mail per tick                                       *)
(***************************************************************************)
\* the subjects of the loss track
LossSubjects ==
    {"ALERT: Audio Loss", "CLEAR: Audio Restored", "REMINDER: Audio Still Lost"}

\* the loss-track calls of the latest step
LossCalls(evs) ==
    {i \in 1..Len(evs) : evs[i].subject \in LossSubjects}

\* C31: with SILENCE_THRESHOLD_DB < CLEAR_THRESHOLD_DB and REMINDER_INTERVAL > 0
\* a tick of the full monitor sends at most one of ALERT, CLEAR and REMINDER;
\* the tick that sends the ALERT sends neither of the other two
C31_OneLossMailPerTick ==
    (SILENCE_THRESHOLD_DB < CLEAR_THRESHOLD_DB /\ REMINDER_INTERVAL > 0 /\ AfterSample) =>
        /\ Cardinality(LossCalls(events)) <= 1
        /\ Fired(events, "ALERT: Audio Loss") =>
              /\ ~Fired(events, "CLEAR: Audio Restored")
              /\ ~Fired(events, "REMINDER: Audio Still Lost")

\* the tick of an ALERT: the alarm is active, the timer is started, and the
\* ALERT is the only loss-track mail
C31_Witness ==
    /\ AfterSample
    /\ Fired(events, "ALERT: Audio Loss")
    /\ Cardinality(LossCalls(events)) = 1
    /\ alarm_active
    /\ ~IsClear(db)
    /\ last_alert_time_loss = clock

(***************************************************************************)
(* C32: the alarm does not wait for the delivery                           *)
(***************************************************************************)
\* C32: whatever send_email returns for an ALERT, False included, the tick
\* ends with the loss alarm active and its timers started; no ALERT is sent
\* while an ALERT is unanswered by a CLEAR; and a REMINDER is sent no earlier
\* than REMINDER_INTERVAL seconds after the ALERT or REMINDER before it
C32_AlarmWithoutDelivery ==
    AfterSample =>
        /\ \A i \in Calls(events, "ALERT: Audio Loss") :
              /\ events[i].prev_emit = None
              /\ events[i].after.alarm_active
              /\ events[i].after.silent_count = 0
              /\ events[i].after.alert_start_loss = events[i].now
              /\ alarm_active
              /\ last_alert_time_loss = events[i].now
        /\ \A i \in Calls(events, "REMINDER: Audio Still Lost") :
              /\ events[i].prev_emit # None
              /\ events[i].called - events[i].prev_emit >= REMINDER_INTERVAL

\* an ALERT for which send_email returned False because the probe raised:
\* the alarm is active all the same
C32_Witness ==
    /\ AfterSample
    /\ \E i \in Calls(events, "ALERT: Audio Loss") :
          /\ ~events[i].ret
          /\ events[i].probe \in ProbeErrors
          /\ events[i].subs = <<>>
    /\ alarm_active
    /\ state_file # {}

(***************************************************************************)
(* C33: the health mail and the alarms                                     *)
(***************************************************************************)
\* the health block of an iteration has run and sent its mail
HealthMailSent ==
    /\ program \in FullPrograms
    /\ pc = "sample"
    /\ events # <<>>
    /\ events[1].subject = "Audio Health Check"

\* C33: a health mail does not say 'System operating normally' on a tick on
\* which the loss alarm or the distortion alarm is active
C33_HealthMailNotNormalInAlarm ==
    (HealthMailSent /\ (alarm_active \/ distortion_active)) =>
        events[1].status # "System operating normally"

(***************************************************************************)
(* C34: recovery through the loop's own check                              *)
(***************************************************************************)
\* the network is back for good and the failure flag is still there
FlagPending ==
    program = "restored" /\ state_file # {}

\* the flag is gone and the call that has just returned delivered a recovery notice
Recovered ==
    /\ program = "restored"
    /\ state_file = {}
    /\ \E i \in 1..Len(events) : events[i].entry_file # {} /\ Delivered(events[i]) > 0

HandlerLogDay == 0

\* C35: no retention sweep, at start-up or from the cleanup thread, deletes
\* the dated log file the process's file handler is writing to, however long
\* the process has been running.
C35_HandlerLogNeverSwept ==
    (program = "cleanup" /\ pc = "sleeping") => HandlerLogDay \in log_files

(***************************************************************************)
(* C36: a tick whose capture raises PortAudioError                         *)
(***************************************************************************)
\* C36: a tick of testtest.py whose capture raises PortAudioError emits no
\* mail and leaves the alarm flags, the three consecutive counts, the alert
\* and reminder timers and both history lists as they were; the next
\* iteration starts from the same counts.
C36_FailedTickFrame ==
    [][(CaptureStep /\ capture' = "PortAudioError") =>
        /\ events' = <<>>
        /\ pc' = "sample"
        /\ UNCHANGED <<alarm_active, distortion_active>>
        /\ UNCHANGED <<silent_count, clear_count, distortion_count>>
        /\ UNCHANGED <<last_alert_time_loss, last_alert_time_distortion, alert_start_loss, alert_start_distortion>>
        /\ UNCHANGED <<db_history, timestamp_history>>
        /\ UNCHANGED <<silent_run, clear_run, distorted_run>>
    ]_vars

\* a capture has just raised PortAudioError in the middle of a run of silent
\* samples: one more silent sample is enough for the ALERT
C36_Witness ==
    /\ program = "full"
    /\ capture = "PortAudioError"
    /\ pc = "sample"
    /\ events = <<>>
    /\ silent_count = SILENCE_LIMIT - 1
    /\ Len(db_history) = SILENCE_LIMIT - 1
    /\ Len(timestamp_history) = SILENCE_LIMIT - 1

(***************************************************************************)
(* C37: the simple monitor's ALERT                                         *)
(***************************************************************************)
\* C37: in the simple monitor, once silent_count has reached --silence-limit
\* the ALERT has gone through send_email and the alarm is active with
\* clear_count = 0 and the reminder timer started: silent_count does not grow
\* past the limit with a new ALERT attempt on every tick.
C37_SimpleAlertEntersAlarm ==
    (program = "simple" /\ silent_count >= SILENCE_LIMIT) =>
        /\ alarm_active
        /\ last_alert_time_loss # 0
        /\ silent_count = SILENCE_LIMIT
        /\ last_emit # None

(***************************************************************************)
(* C38: send_email without a valid recipient                               *)
(***************************************************************************)
\* C38: with no valid recipient configured, send_email returns False, opens
\* no SMTP session (neither for the requested message nor for a recovery
\* notice) and leaves an existing failure flag as it was. The calls looked at
\* are those that get past the probe, where the recipients are examined.
C38_NoRecipientNoSmtp ==
    (program = "mail" /\ EMAIL_TO = <<>>) =>
        \A i \in 1..Len(events) :
            events[i].probe \notin ProbeErrors =>
                /\ events[i].ret = FALSE
                /\ events[i].subs = <<>>
                /\ events[i].state_file = events[i].entry_file

====
